---- MODULE Spec2Model ----
(***************************************************************************)
(* A model of ts-sqlite-datastore (src/src/sqlite-datastore.ts): the       *)
(* SqliteDatastore facade over one sqlite3 handle.  The schema, the        *)
(* one-shot #migrated flag, the engine's tables and the position of every  *)
(* pending facade call are the state; every promise callback of the        *)
(* facade is one action.  SQL text is kept in structured form (statement   *)
(* kind, table, column clauses, WHERE fragments, parameters).              *)
(***************************************************************************)
EXTENDS Naturals, Integers, Sequences, FiniteSets, TLC

\* ---------------------------------------------------------------- bounds
\* Most rows a table may hold before the model stops starting inserts.
MaxRows == 3
\* Largest rowid / sqlite_sequence value the model lets an insert reach.
MaxSeq == 4
\* Most records in one insert call.
MaxBatch == 2
\* Most identifiers crypto.randomUUID hands out before inserts stop.
MaxUuids == 3

VARIABLES
  schema,    \* #schema.tables: sequence of [name, columns, primaryKey]
  migrated,  \* #migrated
  db,        \* the engine: table name -> [exists, cols, rows, seq]
  pc,        \* caller -> position of its pending facade call
  op,        \* caller -> the call and its arguments
  loc,       \* caller -> locals of the pending call
  res,       \* caller -> the promise the call returned
  ddlRuns,   \* how many times the CREATE TABLE sequence was started
  uuids,     \* how many identifiers crypto.randomUUID has handed out
  handle     \* the sqlite3 Database behind #databasePromise: open or closed

vars == <<schema, migrated, db, pc, op, loc, res, ddlRuns, uuids, handle>>

Callers == {1, 2}
TableNames == {"people", "pets"}

\* A value that is null or undefined (the code tests `== null` throughout).
Null == "NULL"
\* Not mentioned in an error message.
NA == "-"

Range(s) == {s[i] : i \in DOMAIN s}
Min(S) == CHOOSE x \in S : \A y \in S : x <= y
Max(S) == CHOOSE x \in S : \A y \in S : x >= y

\* ------------------------------------------------------------ error values
\* class: the Error subclass; errno: the native code (0: no errno property);
\* text: the stable part of the message; type/column/table: names the message
\* (or the error's fields) carries.
Err(class, errno, text, type, column, table) ==
  [class |-> class, errno |-> errno, text |-> text,
   type |-> type, column |-> column, table |-> table]

Ok(v) == [ok |-> TRUE, val |-> v]
Throw(e) == [ok |-> FALSE, err |-> e]

\* ---------------------------------------------------------- column types
SQLITE_TYPES == {"TEXT", "BLOB", "INTEGER", "REAL"}
CustomTypeNames == {"uuid", "insert_timestamp", "update_timestamp"}

\* String.prototype.toUpperCase on the type strings the model uses.
ToUpperCase(s) ==
  CASE s = "text" -> "TEXT"
    [] s = "integer" -> "INTEGER"
    [] s = "uuid" -> "UUID"
    [] s = "insert_timestamp" -> "INSERT_TIMESTAMP"
    [] s = "update_timestamp" -> "UPDATE_TIMESTAMP"
    [] OTHER -> s

\* A column declaration or a resolved column schema.  has: the keys the
\* object carries (the code tests `"key" in columnSchema`).
ColumnObject(form, type, has, nullable, unique, autoIncrement, defaultValue, serialize, parse, beforeInsert, beforeUpdate) ==
  [form |-> form, type |-> type, has |-> has, nullable |-> nullable,
   unique |-> unique, autoIncrement |-> autoIncrement,
   defaultValue |-> defaultValue, serialize |-> serialize, parse |-> parse,
   beforeInsert |-> beforeInsert, beforeUpdate |-> beforeUpdate]

\* A bare string declaration, e.g. name: "TEXT".
Bare(type) ==
  ColumnObject("bare", type, {}, FALSE, FALSE, FALSE, Null,
               "none", "none", "none", "none")

\* An object declaration { type, ...props }: props are the keys given
\* besides type.
Obj(type, props, nullable, unique, autoIncrement, defaultValue) ==
  ColumnObject("object", type, {"type"} \cup props, nullable, unique,
               autoIncrement, defaultValue, "none", "none", "none", "none")

CUSTOM_TYPES(name) ==
  CASE name = "uuid" ->
         ColumnObject("object", "TEXT",
                      {"type", "nullable", "unique", "beforeInsert",
                       "beforeUpdate", "parse"},
                      FALSE, TRUE, FALSE, Null, "none",
                      "identity", "uuid", "uuid")
    [] name = "insert_timestamp" ->
         ColumnObject("object", "TEXT",
                      {"type", "nullable", "unique", "beforeInsert",
                       "beforeUpdate", "parse"},
                      FALSE, FALSE, FALSE, Null, "none",
                      "date", "insert_timestamp", "insert_timestamp")
    [] name = "update_timestamp" ->
         ColumnObject("object", "TEXT",
                      {"type", "nullable", "unique", "beforeInsert",
                       "beforeUpdate", "parse"},
                      FALSE, FALSE, FALSE, Null, "none",
                      "date", "update_timestamp", "update_timestamp")

resolveColumnSchema(columnSchema) ==
  IF columnSchema.form = "bare"
  THEN IF columnSchema.type \in CustomTypeNames
       THEN Ok(CUSTOM_TYPES(columnSchema.type))
       ELSE IF columnSchema.type \in SQLITE_TYPES
       THEN Ok(ColumnObject("object", columnSchema.type, {"type"}, FALSE,
                            FALSE, FALSE, Null, "none", "none", "none", "none"))
       ELSE Throw(Err("InvalidSchemaError", 0, "Invalid column type",
                      columnSchema.type, NA, NA))
  ELSE Ok(columnSchema)

isValidColumnType(type) ==
  ToUpperCase(type) \in SQLITE_TYPES \/ type \in CustomTypeNames

\* ------------------------------------------------------------ table schemas
PrimaryKeyAbsent == [kind |-> "absent", names |-> <<>>]
PrimaryKeyName(n) == [kind |-> "name", names |-> <<n>>]
PrimaryKeyList(ns) == [kind |-> "list", names |-> ns]

Column(name, decl) == [name |-> name, decl |-> decl]
Table(name, columns, primaryKey) ==
  [name |-> name, columns |-> columns, primaryKey |-> primaryKey]

ColumnNamesOf(tableSchema) ==
  [i \in DOMAIN tableSchema.columns |-> tableSchema.columns[i].name]

isPrimaryKeyIdAlways(tableSchema, columnName) ==
  IF tableSchema.primaryKey.kind = "list"
  THEN columnName \in Range(tableSchema.primaryKey.names)
  ELSE \/ (tableSchema.primaryKey.kind = "name"
           /\ tableSchema.primaryKey.names[1] = columnName)
       \/ columnName = "id"

isPrimaryKey(tableSchema, columnName) ==
  IF tableSchema.primaryKey.kind = "list"
  THEN columnName \in Range(tableSchema.primaryKey.names)
  ELSE \/ (tableSchema.primaryKey.kind = "name"
           /\ tableSchema.primaryKey.names[1] = columnName)
       \/ (columnName = "id" /\ tableSchema.primaryKey.kind = "absent")

\* One column clause of CREATE TABLE, or the InvalidSchemaError thrown for it.
autoIncrementCheckSkipped(tableName, columnName, autoIncrement, primaryKey) ==
  FALSE

autoIncrementCheck(tableName, columnName, autoIncrement, primaryKey) ==
  autoIncrement /\ ~primaryKey

columnDefinition(tableName, tableSchema, i) ==
  LET columnName == tableSchema.columns[i].name
      r == resolveColumnSchema(tableSchema.columns[i].decl)
  IN IF ~r.ok THEN r
     ELSE
       LET columnSchema == r.val
           type == columnSchema.type
           primaryKey == isPrimaryKey(tableSchema, columnName)
           autoIncrement == "autoIncrement" \in columnSchema.has
                            /\ columnSchema.autoIncrement
           nullable == "nullable" \in columnSchema.has /\ columnSchema.nullable
           unique == "unique" \in columnSchema.has /\ columnSchema.unique
       IN IF ~isValidColumnType(type)
          THEN Throw(Err("InvalidSchemaError", 0, "Invalid type", type,
                         columnName, tableName))
          ELSE IF autoIncrementCheck(tableName, columnName, autoIncrement,
                                     primaryKey)
          THEN Throw(Err("InvalidSchemaError", 0,
                         "auto-incrementing but not part of the primary key",
                         NA, columnName, tableName))
          ELSE Ok([name |-> columnName, type |-> type,
                   primaryKey |-> primaryKey,
                   autoIncrement |-> autoIncrement,
                   notNull |-> ~nullable,
                   unique |-> (autoIncrement \/ unique)])

\* createTable up to its call of executeSql: the statement, or the first
\* error thrown while mapping the columns in declaration order.
createTableSql(tableName, tableSchema) ==
  LET defs == [i \in DOMAIN tableSchema.columns |->
                 columnDefinition(tableName, tableSchema, i)]
      bad == {i \in DOMAIN defs : ~defs[i].ok}
  IN IF bad # {} THEN defs[Min(bad)]
     ELSE Ok([kind |-> "CREATE TABLE IF NOT EXISTS", table |-> tableName,
              cols |-> [i \in DOMAIN defs |-> defs[i].val]])


\* ------------------------------------------------------------- the engine
\* sqlite3, as the facade drives it.  A table of the engine: whether it
\* exists, its column clauses, its rows in rowid order and its
\* sqlite_sequence entry.
NoTable == [exists |-> FALSE, cols |-> <<>>, rows |-> <<>>, seq |-> 0]

\* Preparing and running CREATE TABLE IF NOT EXISTS: an existing table is
\* left as it is; a new one must have at most one PRIMARY KEY clause, and
\* AUTOINCREMENT only on an INTEGER PRIMARY KEY column.
engineCreateTable(d, sql) ==
  IF d[sql.table].exists THEN Ok(d)
  ELSE IF Cardinality({i \in DOMAIN sql.cols : sql.cols[i].primaryKey}) > 1
  THEN Throw(Err("SqliteError", 1, "more than one primary key",
                 NA, NA, sql.table))
  ELSE IF \E i \in DOMAIN sql.cols :
            /\ sql.cols[i].autoIncrement
            /\ ~(sql.cols[i].primaryKey
                 /\ ToUpperCase(sql.cols[i].type) = "INTEGER")
  THEN Throw(Err("SqliteError", 1,
                 "AUTOINCREMENT is only allowed on an INTEGER PRIMARY KEY",
                 NA, NA, sql.table))
  ELSE Ok([d EXCEPT ![sql.table] =
             [exists |-> TRUE, cols |-> sql.cols, rows |-> <<>>, seq |-> 0]])

EngineError(errno, text, column, table) ==
  Err("SqliteError", errno, text, NA, column, table)

\* A statement created on the handle after it was closed: the engine calls
\* back with SQLITE_MISUSE instead of doing r.
onHandle(h, r) ==
  IF h = "closed"
  THEN Throw(EngineError(21, "Database is closed", NA, NA))
  ELSE r

EngineColumnNames(t) == {t.cols[i].name : i \in DOMAIN t.cols}

\* The column that is the table's rowid: its INTEGER PRIMARY KEY, if any.
RowidAlias(t) ==
  {t.cols[i].name : i \in {j \in DOMAIN t.cols :
                             /\ t.cols[j].primaryKey
                             /\ ToUpperCase(t.cols[j].type) = "INTEGER"}}

MaxRowid(t) ==
  IF t.rows = <<>> THEN 0 ELSE Max({t.rows[i].rowid : i \in DOMAIN t.rows})

\* The column holds NULL in the row (the rowid never does).
HoldsNull(t, row, columnName) ==
  columnName \notin RowidAlias(t) /\ row.vals[columnName] = Null

\* Preparing INSERT INTO table (columnNames) VALUES (?, ...).
enginePrepareInsert(d, table, columnNames) ==
  IF ~d[table].exists
  THEN Throw(EngineError(1, "no such table", NA, table))
  ELSE IF Range(columnNames) \ EngineColumnNames(d[table]) # {}
  THEN Throw(EngineError(1, "table has no column named",
                         CHOOSE cn \in Range(columnNames)
                                         \ EngineColumnNames(d[table]) : TRUE,
                         table))
  ELSE Ok(d)

\* Running the prepared INSERT with one record's values: the rowid is the
\* next one (never reused under AUTOINCREMENT), NOT NULL is checked before
\* UNIQUE, and a failed statement changes nothing.  The records of the model
\* give no value for a rowid column, so the engine always assigns it.
engineInsert(d, table, record) ==
  LET t == d[table]
      auto == \E i \in DOMAIN t.cols : t.cols[i].autoIncrement
      rowid == IF auto THEN Max({t.seq, MaxRowid(t)}) + 1
               ELSE MaxRowid(t) + 1
      row == [rowid |-> rowid,
              vals |-> [cn \in EngineColumnNames(t) |->
                          IF cn \in RowidAlias(t) THEN rowid
                          ELSE IF cn \in DOMAIN record THEN record[cn]
                          ELSE Null]]
      checked == {i \in DOMAIN t.cols : t.cols[i].name \notin RowidAlias(t)}
      nulls == {i \in checked :
                  t.cols[i].notNull /\ row.vals[t.cols[i].name] = Null}
      dups == {i \in checked :
                 /\ t.cols[i].unique \/ t.cols[i].primaryKey
                 /\ row.vals[t.cols[i].name] # Null
                 /\ \E k \in DOMAIN t.rows :
                      t.rows[k].vals[t.cols[i].name]
                        = row.vals[t.cols[i].name]}
  IN IF ~t.exists THEN Throw(EngineError(1, "no such table", NA, table))
     ELSE IF nulls # {}
     THEN Throw(EngineError(19, "NOT NULL constraint failed",
                            t.cols[Min(nulls)].name, table))
     ELSE IF dups # {}
     THEN Throw(EngineError(19, "UNIQUE constraint failed",
                            t.cols[Min(dups)].name, table))
     ELSE Ok([db |-> [d EXCEPT ![table].rows = Append(@, row),
                               ![table].seq = IF auto THEN rowid ELSE @],
              lastID |-> rowid, changes |-> 1])

\* The TEXT values the model orders, in the engine's order (BINARY
\* collation: byte by byte).
TextOrder == <<"anon", "bar", "baz", "c", "foo">>

TextRank(v) == CHOOSE i \in DOMAIN TextOrder : TextOrder[i] = v

\* value LIKE pattern on the strings of the model: % stands for any run of
\* characters; a pattern without % matches the equal string.
Like(value, pattern) ==
  CASE pattern = "b%" -> value \in {"bar", "baz"}
    [] pattern = "%o" -> value \in {"foo"}
    [] OTHER -> value = pattern

\* An ordering operator or LIKE between two TEXT values.
Relates(operator, a, b) ==
  CASE operator = ">" -> TextRank(a) > TextRank(b)
    [] operator = ">=" -> TextRank(a) >= TextRank(b)
    [] operator = "<" -> TextRank(a) < TextRank(b)
    [] operator = "<=" -> TextRank(a) <= TextRank(b)
    [] operator = "LIKE" -> Like(a, b)

\* An ordering or LIKE comparison of the column of a row with a parameter.
Compares(t, row, f) ==
  /\ f.params[1] # Null
  /\ ~HoldsNull(t, row, f.column)
  /\ Relates(f.operator, row.vals[f.column], f.params[1])

\* One fragment of a WHERE clause on one row, with SQL's NULL rules: a
\* comparison with NULL on either side is not true.  The model compares TEXT
\* columns.
FragmentHolds(t, row, f) ==
  CASE f.operator = "IS NULL" -> HoldsNull(t, row, f.column)
    [] f.operator \in {">", ">=", "<", "<=", "LIKE"} -> Compares(t, row, f)
    [] f.operator = "IN" ->
         /\ ~HoldsNull(t, row, f.column)
         /\ \E k \in DOMAIN f.params :
              f.params[k] # Null /\ row.vals[f.column] = f.params[k]
    [] f.operator = "=" ->
         /\ f.params[1] # Null
         /\ ~HoldsNull(t, row, f.column)
         /\ row.vals[f.column] = f.params[1]
    [] f.operator = "!=" ->
         /\ f.params[1] # Null
         /\ ~HoldsNull(t, row, f.column)
         /\ row.vals[f.column] # f.params[1]

RowMatches(t, row, where) ==
  \A k \in DOMAIN where : FragmentHolds(t, row, where[k])

UnknownWhereColumns(t, where) ==
  {where[k].column : k \in DOMAIN where} \ EngineColumnNames(t)

\* db.run of DELETE FROM table [WHERE ...].
engineDelete(d, table, where) ==
  LET t == d[table]
      Stays(row) == ~RowMatches(t, row, where)
  IN IF ~t.exists THEN Throw(EngineError(1, "no such table", NA, table))
     ELSE IF UnknownWhereColumns(t, where) # {}
     THEN Throw(EngineError(1, "no such column",
                            CHOOSE cn \in UnknownWhereColumns(t, where) : TRUE,
                            table))
     ELSE Ok([db |-> [d EXCEPT ![table].rows = SelectSeq(@, Stays)],
              changes |-> Len(t.rows) - Len(SelectSeq(t.rows, Stays))])

\* The rows of an UPDATE from row i on: each matching row gets the new
\* values and is checked against the rows as they are by then.
RECURSIVE engineUpdateRows(_, _, _, _, _, _)
engineUpdateRows(t, table, rows, i, assignments, where) ==
  IF i > Len(rows) THEN Ok(rows)
  ELSE IF ~RowMatches(t, rows[i], where)
  THEN engineUpdateRows(t, table, rows, i + 1, assignments, where)
  ELSE LET set == {assignments[a].column : a \in DOMAIN assignments}
           ValueOf(cn) ==
             assignments[CHOOSE a \in DOMAIN assignments :
                           assignments[a].column = cn].value
           row == [rows[i] EXCEPT !.vals =
                     [cn \in DOMAIN @ |->
                        IF cn \in set THEN ValueOf(cn) ELSE @[cn]]]
           checked == {j \in DOMAIN t.cols :
                         /\ t.cols[j].name \in set
                         /\ t.cols[j].name \notin RowidAlias(t)}
           nulls == {j \in checked :
                       t.cols[j].notNull /\ row.vals[t.cols[j].name] = Null}
           dups == {j \in checked :
                      /\ t.cols[j].unique \/ t.cols[j].primaryKey
                      /\ row.vals[t.cols[j].name] # Null
                      /\ \E k \in DOMAIN rows :
                           /\ k # i
                           /\ rows[k].vals[t.cols[j].name]
                                = row.vals[t.cols[j].name]}
       IN IF nulls # {}
          THEN Throw(EngineError(19, "NOT NULL constraint failed",
                                 t.cols[Min(nulls)].name, table))
          ELSE IF dups # {}
          THEN Throw(EngineError(19, "UNIQUE constraint failed",
                                 t.cols[Min(dups)].name, table))
          ELSE engineUpdateRows(t, table, [rows EXCEPT ![i] = row], i + 1,
                                assignments, where)

\* db.run of UPDATE table SET ... [WHERE ...]: a SET without assignments
\* does not parse; a failing row undoes the whole statement.  The sets of the
\* model assign no rowid column.
engineUpdate(d, table, assignments, where) ==
  LET t == d[table]
      named == {assignments[a].column : a \in DOMAIN assignments}
                 \cup {where[k].column : k \in DOMAIN where}
      r == engineUpdateRows(t, table, t.rows, 1, assignments, where)
      Hit(row) == RowMatches(t, row, where)
  IN IF DOMAIN assignments = {}
     THEN Throw(EngineError(1, "syntax error", NA, table))
     ELSE IF ~t.exists THEN Throw(EngineError(1, "no such table", NA, table))
     ELSE IF named \ EngineColumnNames(t) # {}
     THEN Throw(EngineError(1, "no such column",
                            CHOOSE cn \in named \ EngineColumnNames(t) : TRUE,
                            table))
     ELSE IF ~r.ok THEN r
     ELSE Ok([db |-> [d EXCEPT ![table].rows = r.val],
              changes |-> Len(SelectSeq(t.rows, Hit))])

uniqueConstraintViolationSwapped(err) ==
  Err("UniqueConstraintViolationError", 0, "UNIQUE constraint violation",
      NA, err.table, err.column)

\* new UniqueConstraintViolationError(m[1], m[2]): the table and the column
\* of the engine's message "UNIQUE constraint failed: table.column".
uniqueConstraintViolation(err) ==
  Err("UniqueConstraintViolationError", 0, "UNIQUE constraint violation",
      NA, err.column, err.table)

\* Preparing SELECT ... FROM table [WHERE ...].
enginePrepareSelect(d, table, where) ==
  IF ~d[table].exists
  THEN Throw(EngineError(1, "no such table", NA, table))
  ELSE IF UnknownWhereColumns(d[table], where) # {}
  THEN Throw(EngineError(1, "no such column",
                         CHOOSE cn \in UnknownWhereColumns(d[table], where) :
                           TRUE,
                         table))
  ELSE Ok(d)

\* Stepping the prepared SELECT to its end: the rows that match, in rowid
\* order.  A statement whose table is gone by then fails when it is stepped.
engineSelect(d, table, where) ==
  LET t == d[table]
      Hit(row) == RowMatches(t, row, where)
  IN IF ~t.exists THEN Throw(EngineError(1, "no such table", NA, table))
     ELSE Ok(SelectSeq(t.rows, Hit))

\* db.close(): refused on a closed handle and while a prepared statement
\* is not finalized.
engineClose(h, unfinalized) ==
  IF h = "closed" THEN Throw(EngineError(21, "Database is closed", NA, NA))
  ELSE IF unfinalized
  THEN Throw(EngineError(5, "unable to close due to unfinalized statements",
                         NA, NA))
  ELSE Ok("closed")

adaptSqliteError(err) ==
  IF err.errno = 0 THEN err
  ELSE IF err.errno = 1
  THEN IF err.text = "no such table"
       THEN Err("NoSuchTableError", 0, "No such table", NA, NA, err.table)
       ELSE IF err.text = "syntax error"
       THEN Err("SyntaxError", 0, err.text, NA, NA, NA)
       ELSE Err("UnknownError", 0, err.text, NA, NA, NA)
  ELSE IF err.errno = 19 /\ err.text = "UNIQUE constraint failed"
  THEN uniqueConstraintViolation(err)
  ELSE err

\* -------------------------------------------------------- WHERE clauses
\* A criteria object: its entries in key order.  form is what the value of the
\* entry is: "array" (value: the list), "null", "object" (ops: operator ->
\* operand) or "scalar" (value).
Entry(column, form, value, ops) ==
  [column |-> column, form |-> form, value |-> value, ops |-> ops]

NoOps == [o \in {} |-> Null]
InList(column, values) == Entry(column, "array", values, NoOps)
IsNull(column) == Entry(column, "null", Null, NoOps)
Compare(column, ops) == Entry(column, "object", Null, ops)
Equals(column, value) == Entry(column, "scalar", value, NoOps)

\* What a caller passes as `where`: nothing, or a criteria object.
NoCriteria == [given |-> FALSE, entries |-> <<>>]
Criteria(entries) == [given |-> TRUE, entries |-> entries]

OPERATOR_MAP_GteAsGt ==
  <<[operator |-> "eq", sql |-> "="], [operator |-> "neq", sql |-> "!="],
    [operator |-> "gt", sql |-> ">"], [operator |-> "gte", sql |-> ">"],
    [operator |-> "lt", sql |-> "<"], [operator |-> "lte", sql |-> "<="],
    [operator |-> "like", sql |-> "LIKE"]>>

OPERATOR_MAP ==
  <<[operator |-> "eq", sql |-> "="], [operator |-> "neq", sql |-> "!="],
    [operator |-> "gt", sql |-> ">"], [operator |-> "gte", sql |-> ">="],
    [operator |-> "lt", sql |-> "<"], [operator |-> "lte", sql |-> "<="],
    [operator |-> "like", sql |-> "LIKE"]>>

Fragment(column, operator, params) ==
  [column |-> column, operator |-> operator, params |-> params]

RECURSIVE operatorFragments(_, _)
operatorFragments(entry, i) ==
  IF i > Len(OPERATOR_MAP) THEN <<>>
  ELSE (IF OPERATOR_MAP[i].operator \in DOMAIN entry.ops
        THEN <<Fragment(entry.column, OPERATOR_MAP[i].sql,
                        <<entry.ops[OPERATOR_MAP[i].operator]>>)>>
        ELSE <<>>)
       \o operatorFragments(entry, i + 1)

entryFragments(entry) ==
  CASE entry.form = "array" ->
         <<Fragment(entry.column, "IN", entry.value)>>
    [] entry.form = "null" -> <<Fragment(entry.column, "IS NULL", <<>>)>>
    [] entry.form = "object" -> operatorFragments(entry, 1)
    [] entry.form = "scalar" ->
         <<Fragment(entry.column, "=", <<entry.value>>)>>

\* The fragments buildCriteriaSql joins with AND, each with its parameters.
RECURSIVE buildCriteriaSql(_)
buildCriteriaSql(criteria) ==
  IF ~criteria.given \/ criteria.entries = <<>> THEN <<>>
  ELSE entryFragments(Head(criteria.entries))
       \o buildCriteriaSql(Criteria(Tail(criteria.entries)))

\* The clause is empty (and falsy) exactly when there is no fragment.
buildWhereClause(where) == buildCriteriaSql(where)

\* --------------------------------------------------------- statement text
\* The text of a statement as the sequence of its tokens (a quoted name is
\* the token of the name; white space is no token), next to the list of
\* parameters bound to it.
RECURSIVE Join(_, _)
Join(parts, sep) ==
  IF parts = <<>> THEN <<>>
  ELSE IF Len(parts) = 1 THEN parts[1]
  ELSE parts[1] \o sep \o Join(Tail(parts), sep)

NoText == [sql |-> <<>>, params |-> <<>>]

\* What the tests of the reducer see of the value of an entry: an array and
\* null both have typeof "object".
isArray(entry) == entry.form = "array"
isNullish(entry) == entry.form = "null"
typeofObject(entry) == entry.form \in {"array", "null", "object"}

\* The placeholders array of an array value.
placeholders(value) == [i \in DOMAIN value |-> <<"?">>]

\* Object.entries(OPERATOR_MAP).forEach: a fragment and a parameter for
\* every operator the value carries.
RECURSIVE operatorText(_, _, _)
operatorText(entry, i, acc) ==
  IF i > Len(OPERATOR_MAP) THEN acc
  ELSE operatorText(
         entry, i + 1,
         IF OPERATOR_MAP[i].operator \in DOMAIN entry.ops
         THEN [sql |-> Append(acc.sql, <<"(", entry.column,
                                         OPERATOR_MAP[i].sql, "?", ")">>),
               params |-> Append(acc.params,
                                 entry.ops[OPERATOR_MAP[i].operator])]
         ELSE acc)

reducerObjectFirst(acc, entry) ==
  IF isNullish(entry)
  THEN [acc EXCEPT !.sql = Append(@, <<"(", entry.column, "IS NULL", ")">>)]
  ELSE IF typeofObject(entry) THEN operatorText(entry, 1, acc)
  ELSE [sql |-> Append(acc.sql, <<"(", entry.column, "=", "?", ")">>),
        params |-> Append(acc.params, entry.value)]

\* The reducer of buildCriteriaSql on one entry of the criteria.
reducer(acc, entry) ==
  IF isArray(entry)
  THEN [sql |-> Append(acc.sql,
                       <<"(", entry.column, "IN", "(">>
                       \o Join(placeholders(entry.value), <<",">>)
                       \o <<")", ")">>),
        params |-> acc.params \o entry.value]
  ELSE IF isNullish(entry)
  THEN [acc EXCEPT !.sql = Append(@, <<"(", entry.column, "IS NULL", ")">>)]
  ELSE IF typeofObject(entry) THEN operatorText(entry, 1, acc)
  ELSE [sql |-> Append(acc.sql, <<"(", entry.column, "=", "?", ")">>),
        params |-> Append(acc.params, entry.value)]

RECURSIVE reduceEntries(_, _)
reduceEntries(entries, acc) ==
  IF entries = <<>> THEN acc
  ELSE reduceEntries(Tail(entries), reducer(acc, Head(entries)))

\* buildCriteriaSql, as text: [sql.join(" AND "), params]
criteriaSqlText(criteria) ==
  IF ~criteria.given THEN NoText
  ELSE LET r == reduceEntries(criteria.entries, NoText)
       IN [sql |-> Join(r.sql, <<"AND">>), params |-> r.params]

\* buildWhereClause, as text.
whereClauseText(where) ==
  LET c == criteriaSqlText(where)
  IN IF Len(c.sql) > 0
     THEN [sql |-> <<"WHERE">> \o c.sql, params |-> c.params]
     ELSE NoText

\* The text and the parameters select (what: "*") and count (what:
\* "COUNT(*)") prepare.
selectText(what, tableName, where) ==
  LET w == whereClauseText(where)
  IN [sql |-> <<"SELECT", what, "FROM", tableName>> \o w.sql,
      params |-> w.params]

\* The text and the parameters delete runs.
deleteText(tableName, options) ==
  LET w == IF options.hasWhere THEN whereClauseText(options.where)
           ELSE NoText
  IN [sql |-> <<"DELETE", "FROM", tableName>> \o w.sql, params |-> w.params]

\* The SET clauses of update: Object.entries(valuesForUpdate).forEach.
RECURSIVE setText(_, _)
setText(values, acc) ==
  IF values = <<>> THEN acc
  ELSE setText(Tail(values),
               [sql |-> acc.sql
                        \o (IF Len(acc.sql) > 3 THEN <<",">> ELSE <<>>)
                        \o <<Head(values).column, "=", "?">>,
                params |-> Append(acc.params, Head(values).value)])

updateTextWhereFirst(tableName, values, options) ==
  LET s == setText(values, [sql |-> <<"UPDATE", tableName, "SET">>,
                            params |-> <<>>])
      w == IF options.hasWhere THEN whereClauseText(options.where)
           ELSE NoText
  IN [sql |-> s.sql \o w.sql, params |-> w.params \o s.params]

\* The text and the parameters update runs; values: the entries of
\* valuesForUpdate in key order.
updateText(tableName, values, options) ==
  LET s == setText(values, [sql |-> <<"UPDATE", tableName, "SET">>,
                            params |-> <<>>])
      w == IF options.hasWhere THEN whereClauseText(options.where)
           ELSE NoText
  IN [sql |-> s.sql \o w.sql, params |-> s.params \o w.params]

\* ---------------------------------------------------------- insert hooks
\* UUID_REGEX.test on the strings of the model.
IsUuid(v) == v \in {"U1", "G1", "G2", "G3", "G4"}

\* crypto.randomUUID(): the n-th identifier the process hands out.
randomUUID(n) ==
  CASE n = 1 -> "G1" [] n = 2 -> "G2" [] n = 3 -> "G3" [] OTHER -> "G4"

resolveBeforeInsertHook(resolvedColumnSchema) ==
  IF "beforeInsert" \in resolvedColumnSchema.has
  THEN resolvedColumnSchema.beforeInsert
  ELSE IF \/ ("defaultValue" \in resolvedColumnSchema.has
              /\ resolvedColumnSchema.defaultValue # Null)
          \/ "serialize" \in resolvedColumnSchema.has
  THEN "defaultBeforeInsert"
  ELSE "none"

\* The serializer of the tests, (value) => new Date(String(value))
\* .toISOString(), on the strings of the model: a date string becomes its
\* ISO form, anything else is an invalid date and toISOString throws.
\* The serializer of the README, (value) => value == null ? null :
\* (value as Date).toISOString(): a Date becomes its ISO string, null stays,
\* a value that is no Date has no toISOString.
serialize(fn, value) ==
  CASE fn = "toISOString" ->
         IF value \in {"2021-02-03 12:13:14Z", "2021-02-03T12:13:14.000Z"}
         THEN Ok("2021-02-03T12:13:14.000Z")
         ELSE Throw(Err("RangeError", 0, "Invalid time value", NA, NA, NA))
    [] fn = "isoOrNull" ->
         IF value = Null THEN Ok(Null)
         ELSE IF value = "Date(2021-02-03T12:13:14.000Z)"
         THEN Ok("2021-02-03T12:13:14.000Z")
         ELSE IF value = "Date(2022-03-04T00:00:00.000Z)"
         THEN Ok("2022-03-04T00:00:00.000Z")
         ELSE IF value = "Invalid Date"
         THEN Throw(Err("RangeError", 0, "Invalid time value", NA, NA, NA))
         ELSE Throw(Err("TypeError", 0, "value.toISOString is not a function",
                        NA, NA, NA))

\* new Date(value) on the strings of the model.
DateOf(value) ==
  CASE value = Null -> "Date(1970-01-01T00:00:00.000Z)"
    [] value = "T1" -> "Date(T1)"
    [] value = "T2" -> "Date(T2)"
    [] value = "2021-02-03T12:13:14.000Z" -> "Date(2021-02-03T12:13:14.000Z)"
    [] value = "2022-03-04T00:00:00.000Z" -> "Date(2022-03-04T00:00:00.000Z)"
    [] OTHER -> "Invalid Date"

\* The parsers: of the uuid type (identity), of the timestamp types (date)
\* and of the README, (value) => value == null ? null : new Date(value).
parse(fn, value) ==
  CASE fn = "identity" -> value
    [] fn = "date" -> DateOf(value)
    [] fn = "dateOrNull" -> IF value = Null THEN Null ELSE DateOf(value)

\* The value defaultBeforeInsert leaves in record[columnName].
defaultBeforeInsert(value, columnSchema) ==
  LET defaulted == IF value = Null /\ "defaultValue" \in columnSchema.has
                   THEN columnSchema.defaultValue
                   ELSE value
  IN IF "serialize" \in columnSchema.has /\ columnSchema.serialize # "none"
     THEN serialize(columnSchema.serialize, defaulted)
     ELSE Ok(defaulted)

defaultBeforeUpdateUnserialized(value, columnSchema) == Ok(value)

defaultBeforeUpdate(value, columnSchema) ==
  IF "serialize" \in columnSchema.has /\ columnSchema.serialize # "none"
  THEN serialize(columnSchema.serialize, value)
  ELSE Ok(value)

TimestampNotAllowed(class, hook) ==
  Err(class, 0,
      IF hook = "insert_timestamp"
      THEN "Specifying a value for an insert_timestamp column is not allowed"
      ELSE "Specifying a value for an update_timestamp column is not allowed",
      NA, NA, NA)

beforeInsertUnchecked(hook, columnSchema, value, n, now) ==
  Ok([value |-> value, n |-> n])

\* One before-insert hook on one column: the value it leaves and how many
\* identifiers it drew (n: drawn so far), or what it throws.
beforeInsert(hook, columnSchema, value, n, now) ==
  CASE hook = "uuid" ->
         IF value = Null
         THEN Ok([value |-> randomUUID(n + 1), n |-> n + 1])
         ELSE IF ~IsUuid(value)
         THEN Throw(Err("InvalidUUIDError", 0, "Invalid UUID", NA, NA, NA))
         ELSE Ok([value |-> value, n |-> n])
    [] hook \in {"insert_timestamp", "update_timestamp"} ->
         IF value # Null
         THEN Throw(TimestampNotAllowed("InsertError", hook))
         ELSE Ok([value |-> now, n |-> n])
    [] hook = "defaultBeforeInsert" ->
         LET d == defaultBeforeInsert(value, columnSchema)
         IN IF d.ok THEN Ok([value |-> d.val, n |-> n]) ELSE d
    [] hook = "none" -> Ok([value |-> value, n |-> n])

beforeUpdateUnchecked(columnSchema, value, now) == Ok(value)

\* One before-update hook on one column of the set, or the default one when
\* the column has a serializer: the value it leaves, or what it throws.
beforeUpdate(columnSchema, value, now) ==
  IF "beforeUpdate" \in columnSchema.has
  THEN CASE columnSchema.beforeUpdate = "uuid" ->
              IF value = Null THEN Ok(value)
              ELSE IF ~IsUuid(value)
              THEN Throw(Err("InvalidUUIDError", 0, "Invalid UUID", NA, NA, NA))
              ELSE Ok(value)
         [] columnSchema.beforeUpdate = "insert_timestamp" ->
              IF value # Null
              THEN Throw(TimestampNotAllowed("UpdateError", "insert_timestamp"))
              ELSE Ok(value)
         [] columnSchema.beforeUpdate = "update_timestamp" ->
              IF value # Null
              THEN Throw(TimestampNotAllowed("UpdateError", "update_timestamp"))
              ELSE Ok(now)
  ELSE IF "serialize" \in columnSchema.has
  THEN defaultBeforeUpdate(value, columnSchema)
  ELSE Ok(value)

\* beforeInsertHooks.forEach((hook) => hook(newRecord)), from column i on.
RECURSIVE applyBeforeInsertHooks(_, _, _, _, _)
applyBeforeInsertHooks(tableSchema, newRecord, i, n, now) ==
  IF i > Len(tableSchema.columns) THEN Ok([record |-> newRecord, n |-> n])
  ELSE LET columnName == tableSchema.columns[i].name
           columnSchema == resolveColumnSchema(tableSchema.columns[i].decl).val
           h == beforeInsert(resolveBeforeInsertHook(columnSchema),
                             columnSchema, newRecord[columnName], n, now)
       IN IF ~h.ok THEN h
          ELSE applyBeforeInsertHooks(
                 tableSchema,
                 [newRecord EXCEPT ![columnName] = h.val.value],
                 i + 1, h.val.n, now)

unknownKeysIgnored(record, columnNames) == {}

\* The keys of a record that are no column of the table.
unknownKeys(record, columnNames) == DOMAIN record \ columnNames

\* records.map(...) from record k on: a key that is no column throws, else
\* the record gets every column of the table and the hooks run on it.
RECURSIVE mapRecordsForInsert(_, _, _, _, _, _, _)
mapRecordsForInsert(tableName, tableSchema, records, k, n, now, acc) ==
  IF k > Len(records) THEN Ok([records |-> acc, n |-> n])
  ELSE LET record == records[k]
           columnNames == Range(ColumnNamesOf(tableSchema))
           unknown == unknownKeys(record, columnNames)
       IN IF unknown # {}
          THEN Throw(Err("InsertError", 0, "Column not found on table", NA,
                         CHOOSE key \in unknown : TRUE, tableName))
          ELSE LET newRecord == [cn \in columnNames |->
                                   IF cn \in DOMAIN record THEN record[cn]
                                   ELSE Null]
                   h == applyBeforeInsertHooks(tableSchema, newRecord, 1, n,
                                               now)
               IN IF ~h.ok THEN h
                  ELSE mapRecordsForInsert(tableName, tableSchema, records,
                                           k + 1, h.val.n, now,
                                           Append(acc, h.val.record))

getRecordsForInsertReversed(tableName, tableSchema, records, n, now) ==
  LET unresolved == {i \in DOMAIN tableSchema.columns :
                       ~resolveColumnSchema(tableSchema.columns[i].decl).ok}
  IN IF unresolved # {}
     THEN resolveColumnSchema(tableSchema.columns[Min(unresolved)].decl)
     ELSE LET r == mapRecordsForInsert(tableName, tableSchema, records, 1, n,
                                       now, <<>>)
          IN IF ~r.ok THEN r
             ELSE Ok([records |-> [i \in DOMAIN r.val.records |->
                                    r.val.records[Len(r.val.records) + 1 - i]],
                      columnNames |-> ColumnNamesOf(tableSchema),
                      n |-> r.val.n])

\* getRecordsForInsert: the hooks are resolved for every column, then the
\* records are mapped.
getRecordsForInsert(tableName, tableSchema, records, n, now) ==
  LET unresolved == {i \in DOMAIN tableSchema.columns :
                       ~resolveColumnSchema(tableSchema.columns[i].decl).ok}
  IN IF unresolved # {}
     THEN resolveColumnSchema(tableSchema.columns[Min(unresolved)].decl)
     ELSE LET r == mapRecordsForInsert(tableName, tableSchema, records, 1, n,
                                       now, <<>>)
          IN IF ~r.ok THEN r
             ELSE Ok([records |-> r.val.records,
                      columnNames |-> ColumnNamesOf(tableSchema),
                      n |-> r.val.n])

\* The values an update binds: every key of the set must be a column; then
\* the hooks run for the columns of the set only, in the order of the
\* table's columns (the sets of the model name one hooked column at most).
getValuesForUpdate(tableName, tableSchema, set, now) ==
  LET columnNames == Range(ColumnNamesOf(tableSchema))
      unknown == DOMAIN set \ columnNames
      inSet == {i \in DOMAIN tableSchema.columns :
                  tableSchema.columns[i].name \in DOMAIN set}
      hooked == [i \in inSet |->
                   LET r == resolveColumnSchema(tableSchema.columns[i].decl)
                   IN IF ~r.ok THEN r
                      ELSE beforeUpdate(r.val,
                                        set[tableSchema.columns[i].name], now)]
      thrown == {i \in inSet : ~hooked[i].ok}
  IN IF unknown # {}
     THEN Throw(Err("UpdateError", 0, "Invalid column name", NA,
                    CHOOSE key \in unknown : TRUE, NA))
     ELSE IF thrown # {} THEN hooked[Min(thrown)]
     ELSE Ok([i \in inSet |->
                [column |-> tableSchema.columns[i].name,
                 value |-> hooked[i].val]])

\* parseRow: every column the engine returned goes through the parser of
\* its column schema, if that has one (a bare custom type name is looked up
\* in the registry; a column the schema does not know is passed as it is).
parseRow(tableSchema, row) ==
  [columnName \in DOMAIN row |->
     IF columnName \notin Range(ColumnNamesOf(tableSchema))
     THEN row[columnName]
     ELSE LET rawColumnSchema ==
                tableSchema.columns[
                  CHOOSE i \in DOMAIN tableSchema.columns :
                    tableSchema.columns[i].name = columnName].decl
              columnSchema ==
                IF /\ rawColumnSchema.form = "bare"
                   /\ rawColumnSchema.type \in CustomTypeNames
                THEN CUSTOM_TYPES(rawColumnSchema.type)
                ELSE rawColumnSchema
          IN IF columnSchema.form = "object" /\ "parse" \in columnSchema.has
             THEN parse(columnSchema.parse, row[columnName])
             ELSE row[columnName]]

\* ------------------------------------------------------------ facade calls
Pending == [status |-> "pending"]
Resolved(v) == [status |-> "resolved", value |-> v]
Rejected(e) == [status |-> "rejected", error |-> e]

NoError == Err("none", 0, "", NA, NA, NA)

\* Locals of a call: idx, the table createTable is at (0: this call never
\* started the CREATE TABLE sequence); stmts, the statements the call has
\* sent to the engine so far; sql, the statement a delete built; statement,
\* columnNames, records, k, result, failed and err, the prepared INSERT, the
\* records for insert, the position of the reduce chain, its accumulator and
\* the error that broke it; now, the instant new Date() showed to the hooks
\* of the call.  before is history: the table as the engine held it when the
\* call was made.
NoLocals ==
  [idx |-> 0, stmts |-> <<>>, sql |-> [kind |-> "none"],
   statement |-> "none", columnNames |-> <<>>, records |-> <<>>, k |-> 0,
   result |-> [has |-> {}, count |-> 0, ids |-> <<>>],
   failed |-> FALSE, err |-> NoError, now |-> NA, before |-> NoTable]

\* this.#schema.tables[tableName]
SchemaOf(tableName) == CHOOSE t \in Range(schema) : t.name = tableName

\* The call is over; its promise takes r unless it has settled already.
Settle(c, r) ==
  /\ pc' = [pc EXCEPT ![c] = "done"]
  /\ res' = [res EXCEPT ![c] = IF @.status = "pending" THEN r ELSE @]

\* migrate(): migrateIfNeeded().then(() => {})
CallMigrate(c) ==
  /\ pc[c] \in {"idle", "done"}
  /\ op' = [op EXCEPT ![c] = [name |-> "migrate"]]
  /\ loc' = [loc EXCEPT ![c] = NoLocals]
  /\ res' = [res EXCEPT ![c] = Pending]
  /\ pc' = [pc EXCEPT ![c] = "migrateIfNeeded"]
  /\ UNCHANGED <<schema, migrated, db, ddlRuns, uuids, handle>>

\* The value migrateIfNeeded gives #migrated before it awaits createTable.
migratedAfterCheck(was) == TRUE

\* migrateIfNeeded, the callback on #databasePromise: return at once when
\* the flag is set, else set it and start the CREATE TABLE sequence.
MigrateCheck(c) ==
  /\ pc[c] = "migrateIfNeeded"
  /\ IF migrated
     THEN /\ pc' = [pc EXCEPT ![c] = "body"]
          /\ UNCHANGED <<migrated, loc, ddlRuns>>
     ELSE /\ migrated' = migratedAfterCheck(migrated)
          /\ ddlRuns' = ddlRuns + 1
          /\ loc' = [loc EXCEPT ![c].idx = 1]
          /\ pc' = [pc EXCEPT ![c] = "createTable"]
  /\ UNCHANGED <<schema, db, op, res, uuids, handle>>

\* One link of the reduce chain in migrateIfNeeded: createTable for the
\* next table of the schema; a throw or an engine error rejects the call.
CreateTableStep(c) ==
  /\ pc[c] = "createTable"
  /\ LET tableSchema == schema[loc[c].idx]
         r == createTableSql(tableSchema.name, tableSchema)
     IN IF ~r.ok
        THEN /\ Settle(c, Rejected(r.err))
             /\ UNCHANGED <<db, loc>>
        ELSE LET e == onHandle(handle, engineCreateTable(db, r.val))
                 sent == [loc EXCEPT ![c].stmts = Append(@, r.val)]
             IN IF ~e.ok
                THEN /\ Settle(c, Rejected(adaptSqliteError(e.err)))
                     /\ loc' = sent
                     /\ UNCHANGED db
                ELSE /\ db' = e.val
                     /\ IF loc[c].idx = Len(schema)
                        THEN /\ loc' = sent
                             /\ pc' = [pc EXCEPT ![c] = "body"]
                        ELSE /\ loc' = [sent EXCEPT ![c].idx = @ + 1]
                             /\ UNCHANGED pc
                     /\ UNCHANGED res
  /\ UNCHANGED <<schema, migrated, op, ddlRuns, uuids, handle>>

MigrateResolve(c) ==
  /\ pc[c] = "body"
  /\ op[c].name = "migrate"
  /\ Settle(c, Resolved("void"))
  /\ UNCHANGED <<schema, migrated, db, op, loc, ddlRuns, uuids, handle>>

prepareRejectionRaw(err) == err

\* What prepare rejects with when db.prepare calls back with an error.
prepareRejection(err) == adaptSqliteError(err)

\* The instants new Date() may show.
Times == {"T1", "T2"}

\* insert(tableName, records)
CallInsert(c, tableName, records) ==
  /\ pc[c] \in {"idle", "done"}
  /\ Len(db[tableName].rows) + Len(records) <= MaxRows
  /\ Max({db[tableName].seq, MaxRowid(db[tableName])}) + Len(records) <= MaxSeq
  /\ uuids + Len(records) <= MaxUuids
  /\ op' = [op EXCEPT ![c] = [name |-> "insert", table |-> tableName,
                              records |-> records]]
  /\ loc' = [loc EXCEPT ![c] = [NoLocals EXCEPT !.before = db[tableName]]]
  /\ res' = [res EXCEPT ![c] = Pending]
  /\ pc' = [pc EXCEPT ![c] = "migrateIfNeeded"]
  /\ UNCHANGED <<schema, migrated, db, ddlRuns, uuids, handle>>

\* insert after migrateIfNeeded: getRecordsForInsert, then prepare.  A throw
\* rejects the call as it is; an error of prepare is adapted.
InsertPrepare(c) ==
  /\ pc[c] = "body"
  /\ op[c].name = "insert"
  /\ \E now \in Times :
       LET tableName == op[c].table
           r == getRecordsForInsert(tableName, SchemaOf(tableName),
                                    op[c].records, uuids, now)
       IN IF ~r.ok
          THEN /\ Settle(c, Rejected(r.err))
               /\ UNCHANGED <<db, loc, uuids>>
          ELSE LET p == onHandle(handle,
                                 enginePrepareInsert(db, tableName,
                                                     r.val.columnNames))
                   sent == [loc EXCEPT ![c].stmts =
                              Append(@, [kind |-> "PREPARE INSERT",
                                         table |-> tableName,
                                         columns |-> r.val.columnNames])]
               IN /\ uuids' = r.val.n
                  /\ UNCHANGED db
                  /\ IF ~p.ok
                     THEN /\ Settle(c, Rejected(prepareRejection(p.err)))
                          /\ loc' = sent
                     ELSE /\ loc' = [sent EXCEPT
                                       ![c].now = now,
                                       ![c].statement = "prepared",
                                       ![c].columnNames = r.val.columnNames,
                                       ![c].records = r.val.records,
                                       ![c].k = 1,
                                       ![c].result =
                                         [has |-> {"count", "ids"},
                                          count |-> 0, ids |-> <<>>]]
                          /\ pc' = [pc EXCEPT ![c] =
                                      IF r.val.records = <<>> THEN "finalize"
                                      ELSE "runStatement"]
                          /\ UNCHANGED res
  /\ UNCHANGED <<schema, migrated, op, ddlRuns, handle>>

accumulateWithoutIds(result, lastID) ==
  [result EXCEPT !.count = @ + 1]

\* The accumulator of the reduce chain after one more record went in.
accumulate(result, lastID) ==
  [result EXCEPT !.count = @ + 1,
                 !.ids = IF lastID > 0 /\ "ids" \in result.has
                         THEN Append(@, lastID) ELSE @]

\* One link of the reduce chain in insert: runStatement for record k.
InsertRun(c) ==
  /\ pc[c] = "runStatement"
  /\ LET tableName == op[c].table
         record == loc[c].records[loc[c].k]
         e == engineInsert(db, tableName, record)
         sent == [loc EXCEPT ![c].stmts =
                    Append(@, [kind |-> "INSERT", table |-> tableName,
                               columns |-> loc[c].columnNames,
                               params |-> [i \in DOMAIN loc[c].columnNames |->
                                             record[loc[c].columnNames[i]]]])]
     IN IF ~e.ok
        THEN /\ loc' = [sent EXCEPT ![c].failed = TRUE, ![c].err = e.err]
             /\ pc' = [pc EXCEPT ![c] = "finalize"]
             /\ UNCHANGED db
        ELSE /\ db' = e.val.db
             /\ loc' = [sent EXCEPT
                          ![c].result = accumulate(@, e.val.lastID),
                          ![c].k = @ + 1]
             /\ pc' = [pc EXCEPT ![c] = IF loc[c].k = Len(loc[c].records)
                                        THEN "finalize" ELSE "runStatement"]
  /\ UNCHANGED <<schema, migrated, op, res, ddlRuns, uuids, handle>>

insertRejectionRaw(err) == err

\* What insert rejects with when the chain broke.
insertRejection(err) == adaptSqliteError(err)

\* The two callbacks after the reduce chain: finalize, then settle.
InsertFinalize(c) ==
  /\ pc[c] = "finalize"
  /\ loc' = [loc EXCEPT ![c].statement = "finalized"]
  /\ IF loc[c].failed
     THEN Settle(c, Rejected(insertRejection(loc[c].err)))
     ELSE Settle(c, Resolved(loc[c].result))
  /\ UNCHANGED <<schema, migrated, db, op, ddlRuns, uuids, handle>>

\* What a caller passes to delete besides the table.
DeleteOptions(hasAll, hasWhere, where) ==
  [hasAll |-> hasAll, hasWhere |-> hasWhere, where |-> where]

deleteSqlWithoutWhere(tableName, options) ==
  [kind |-> "DELETE", table |-> tableName, where |-> <<>>]

\* The statement delete builds before it calls migrateIfNeeded.
deleteSql(tableName, options) ==
  [kind |-> "DELETE", table |-> tableName,
   where |-> IF options.hasWhere THEN buildWhereClause(options.where)
             ELSE <<>>]

\* delete(tableName, options)
CallDelete(c, tableName, options) ==
  /\ pc[c] \in {"idle", "done"}
  /\ op' = [op EXCEPT ![c] = [name |-> "delete", table |-> tableName,
                              options |-> options]]
  /\ loc' = [loc EXCEPT ![c] = [NoLocals EXCEPT
                                  !.before = db[tableName],
                                  !.sql = deleteSql(tableName, options)]]
  /\ res' = [res EXCEPT ![c] = Pending]
  /\ pc' = [pc EXCEPT ![c] = "migrateIfNeeded"]
  /\ UNCHANGED <<schema, migrated, db, ddlRuns, uuids, handle>>

\* delete after migrateIfNeeded: db.run; an error rejects as the engine
\* gave it.
DeleteRun(c) ==
  /\ pc[c] = "body"
  /\ op[c].name = "delete"
  /\ LET e == onHandle(handle,
                      engineDelete(db, op[c].table, loc[c].sql.where))
     IN /\ loc' = [loc EXCEPT ![c].stmts = Append(@, loc[c].sql)]
        /\ IF ~e.ok
           THEN /\ Settle(c, Rejected(e.err))
                /\ UNCHANGED db
           ELSE /\ Settle(c, Resolved([count |-> e.val.changes]))
                /\ db' = e.val.db
  /\ UNCHANGED <<schema, migrated, op, ddlRuns, uuids, handle>>

updateWhereClauseDropped(options) == <<>>

\* The WHERE clause of an update: of options.where, if there is one.
updateWhereClause(options) ==
  IF options.hasWhere THEN buildWhereClause(options.where) ELSE <<>>

\* update(tableName, { set, where }); options.where as for delete.
CallUpdate(c, tableName, set, options) ==
  /\ pc[c] \in {"idle", "done"}
  /\ op' = [op EXCEPT ![c] = [name |-> "update", table |-> tableName,
                              set |-> set, options |-> options]]
  /\ loc' = [loc EXCEPT ![c] = [NoLocals EXCEPT !.before = db[tableName]]]
  /\ res' = [res EXCEPT ![c] = Pending]
  /\ pc' = [pc EXCEPT ![c] = "migrateIfNeeded"]
  /\ UNCHANGED <<schema, migrated, db, ddlRuns, uuids, handle>>

\* update after migrateIfNeeded: getValuesForUpdate, the statement, db.run.
\* A throw rejects the call as it is; an error of the engine is adapted.
\* (The calls of the model pass a set and no records.)
UpdateRun(c) ==
  /\ pc[c] = "body"
  /\ op[c].name = "update"
  /\ \E now \in Times :
       LET tableName == op[c].table
           v == getValuesForUpdate(tableName, SchemaOf(tableName), op[c].set,
                                   now)
       IN IF ~v.ok
          THEN /\ Settle(c, Rejected(v.err))
               /\ UNCHANGED <<db, loc>>
          ELSE LET where == updateWhereClause(op[c].options)
                   e == onHandle(handle,
                                 engineUpdate(db, tableName, v.val, where))
               IN /\ loc' = [loc EXCEPT
                               ![c].now = now,
                               ![c].stmts =
                                 Append(@, [kind |-> "UPDATE",
                                            table |-> tableName,
                                            set |-> v.val, where |-> where])]
                  /\ IF ~e.ok
                     THEN /\ Settle(c, Rejected(adaptSqliteError(e.err)))
                          /\ UNCHANGED db
                     ELSE /\ Settle(c, Resolved([count |-> e.val.changes]))
                          /\ db' = e.val.db
  /\ UNCHANGED <<schema, migrated, op, ddlRuns, uuids, handle>>

selectSqlWithoutWhere(kind, tableName, where) ==
  [kind |-> kind, table |-> tableName, where |-> <<>>]

\* The statement select and count build before anything else.
selectSql(kind, tableName, where) ==
  [kind |-> kind, table |-> tableName, where |-> buildWhereClause(where)]

\* select(tableName, { where })
CallSelect(c, tableName, where) ==
  /\ pc[c] \in {"idle", "done"}
  /\ op' = [op EXCEPT ![c] = [name |-> "select", table |-> tableName,
                              where |-> where]]
  /\ loc' = [loc EXCEPT ![c] = [NoLocals EXCEPT
                                  !.before = db[tableName],
                                  !.sql = selectSql("SELECT", tableName,
                                                    where)]]
  /\ res' = [res EXCEPT ![c] = Pending]
  /\ pc' = [pc EXCEPT ![c] = "select"]
  /\ UNCHANGED <<schema, migrated, db, ddlRuns, uuids, handle>>

\* Promise.all([migrateIfNeeded(), prepare(sql, params)]): the two callbacks
\* on #databasePromise run one after the other, the flag check first, then
\* db.prepare of the SELECT, before any createTable of the sequence this call
\* started.  An error of prepare, adapted, rejects the call at once; the
\* CREATE TABLE sequence goes on.
SelectStart(c) ==
  /\ pc[c] = "select"
  /\ LET p == onHandle(handle,
                       enginePrepareSelect(db, op[c].table, loc[c].sql.where))
         sent == [loc EXCEPT
                    ![c].stmts = Append(@, [loc[c].sql EXCEPT
                                              !.kind = "PREPARE SELECT"]),
                    ![c].idx = IF migrated THEN @ ELSE 1,
                    ![c].statement = IF p.ok THEN "prepared" ELSE @,
                    ![c].failed = ~p.ok]
     IN /\ loc' = sent
        /\ res' = [res EXCEPT ![c] =
                     IF p.ok THEN @
                     ELSE Rejected(adaptSqliteError(prepareRejection(p.err)))]
        /\ migrated' = TRUE
        /\ ddlRuns' = IF migrated THEN ddlRuns ELSE ddlRuns + 1
        /\ pc' = [pc EXCEPT ![c] = IF ~migrated THEN "createTable"
                                   ELSE IF p.ok THEN "body" ELSE "done"]
  /\ UNCHANGED <<schema, db, op, uuids, handle>>

\* select after Promise.all: statement.each over the rows, parseRow on each,
\* finalize, resolve; an error of the engine is adapted.  A call whose
\* prepare failed was rejected before and only ends here.
SelectEach(c) ==
  /\ pc[c] = "body"
  /\ op[c].name = "select"
  /\ IF loc[c].failed
     THEN /\ pc' = [pc EXCEPT ![c] = "done"]
          /\ UNCHANGED <<loc, res>>
     ELSE LET e == engineSelect(db, op[c].table, loc[c].sql.where)
          IN /\ loc' = [loc EXCEPT ![c].stmts = Append(@, loc[c].sql),
                                   ![c].statement = "finalized"]
             /\ IF ~e.ok
                THEN Settle(c, Rejected(adaptSqliteError(e.err)))
                ELSE Settle(c, Resolved(
                       [i \in DOMAIN e.val |->
                          parseRow(SchemaOf(op[c].table), e.val[i].vals)]))
  /\ UNCHANGED <<schema, migrated, db, op, ddlRuns, uuids, handle>>

\* count(tableName, { where })
CallCount(c, tableName, where) ==
  /\ pc[c] \in {"idle", "done"}
  /\ op' = [op EXCEPT ![c] = [name |-> "count", table |-> tableName,
                              where |-> where]]
  /\ loc' = [loc EXCEPT ![c] = [NoLocals EXCEPT
                                  !.before = db[tableName],
                                  !.sql = selectSql("SELECT COUNT(*)",
                                                    tableName, where)]]
  /\ res' = [res EXCEPT ![c] = Pending]
  /\ pc' = [pc EXCEPT ![c] = "migrateIfNeeded"]
  /\ UNCHANGED <<schema, migrated, db, ddlRuns, uuids, handle>>

\* count after migrateIfNeeded: prepare, whose error is adapted.
CountPrepare(c) ==
  /\ pc[c] = "body"
  /\ op[c].name = "count"
  /\ LET p == onHandle(handle,
                       enginePrepareSelect(db, op[c].table, loc[c].sql.where))
     IN /\ IF ~p.ok
           THEN /\ Settle(c, Rejected(prepareRejection(p.err)))
                /\ loc' = [loc EXCEPT
                             ![c].stmts = Append(@, [loc[c].sql EXCEPT
                                                       !.kind = "PREPARE COUNT"])]
           ELSE /\ pc' = [pc EXCEPT ![c] = "get"]
                /\ loc' = [loc EXCEPT
                             ![c].stmts = Append(@, [loc[c].sql EXCEPT
                                                       !.kind = "PREPARE COUNT"]),
                             ![c].statement = "prepared"]
                /\ UNCHANGED res
  /\ UNCHANGED <<schema, migrated, db, op, ddlRuns, uuids, handle>>

\* count, statement.get and finalize: the number of the row it returns; an
\* error of get rejects as the engine gave it.
CountGet(c) ==
  /\ pc[c] = "get"
  /\ LET e == engineSelect(db, op[c].table, loc[c].sql.where)
     IN /\ loc' = [loc EXCEPT ![c].stmts = Append(@, loc[c].sql),
                              ![c].statement = "finalized"]
        /\ IF ~e.ok
           THEN Settle(c, Rejected(e.err))
           ELSE Settle(c, Resolved(Len(e.val)))
  /\ UNCHANGED <<schema, migrated, db, op, ddlRuns, uuids, handle>>

\* close()
CallClose(c) ==
  /\ pc[c] \in {"idle", "done"}
  /\ op' = [op EXCEPT ![c] = [name |-> "close"]]
  /\ loc' = [loc EXCEPT ![c] = NoLocals]
  /\ res' = [res EXCEPT ![c] = Pending]
  /\ pc' = [pc EXCEPT ![c] = "close"]
  /\ UNCHANGED <<schema, migrated, db, ddlRuns, uuids, handle>>

\* close, the callback on #databasePromise: db.close; its error rejects.
CloseRun(c) ==
  /\ pc[c] = "close"
  /\ LET e == engineClose(handle,
                          \E o \in Callers : loc[o].statement = "prepared")
     IN IF ~e.ok
        THEN /\ Settle(c, Rejected(e.err))
             /\ UNCHANGED handle
        ELSE /\ Settle(c, Resolved("void"))
             /\ handle' = e.val
  /\ UNCHANGED <<schema, migrated, db, op, loc, ddlRuns, uuids>>

\* Another connection drops a table of the database file (DROP TABLE run
\* out of band, as the tests do).
DropTable(tableName) ==
  /\ db[tableName].exists
  /\ db' = [db EXCEPT ![tableName] = NoTable]
  /\ UNCHANGED <<schema, migrated, pc, op, loc, res, ddlRuns, uuids, handle>>

\* ----------------------------------------------- the migration specification
\* Schemas of one or two tables.  people has a key column (id or foo) and a
\* name column, each declared in any of the ways of ColumnDecls, and any of
\* the primary keys of PrimaryKeysOf; pets is a plain second table, before
\* or after it.
ColumnDecls ==
  {Bare("INTEGER"), Bare("TEXT"), Bare("INVALID"), Bare("text"), Bare("uuid"),
   Obj("INTEGER", {"autoIncrement"}, FALSE, FALSE, TRUE, Null),
   Obj("TEXT", {"nullable", "unique"}, TRUE, TRUE, FALSE, Null),
   Obj("INVALID", {}, FALSE, FALSE, FALSE, Null),
   Obj("text", {}, FALSE, FALSE, FALSE, Null)}

PrimaryKeysOf(k) ==
  {PrimaryKeyAbsent, PrimaryKeyName(k), PrimaryKeyName("name"),
   PrimaryKeyList(<<k>>), PrimaryKeyList(<<k, "name">>)}

PeopleTablesWithKey(k) ==
  {Table("people", <<Column(k, d1), Column("name", d2)>>, p) :
     d1 \in ColumnDecls, d2 \in ColumnDecls, p \in PrimaryKeysOf(k)}

PeopleTables == PeopleTablesWithKey("id") \cup PeopleTablesWithKey("foo")

PetsTable ==
  Table("pets", <<Column("id", Bare("INTEGER")), Column("name", Bare("TEXT"))>>,
        PrimaryKeyAbsent)

MigrateSchemas ==
  {<<t>> : t \in PeopleTables}
  \cup {<<t, PetsTable>> : t \in PeopleTables}
  \cup {<<PetsTable, t>> : t \in PeopleTables}

\* A database file may already hold a table (and rows) from an earlier run.
LegacyPeople ==
  [exists |-> TRUE,
   cols |-> <<[name |-> "id", type |-> "INTEGER", primaryKey |-> TRUE,
               autoIncrement |-> FALSE, notNull |-> TRUE, unique |-> FALSE],
              [name |-> "name", type |-> "TEXT", primaryKey |-> FALSE,
               autoIncrement |-> FALSE, notNull |-> FALSE, unique |-> FALSE]>>,
   rows |-> <<[rowid |-> 1, vals |-> [id |-> 1, name |-> "foo"]]>>,
   seq |-> 0]

EmptyDb == [t \in TableNames |-> NoTable]

InitCommon ==
  /\ migrated = FALSE
  /\ pc = [c \in Callers |-> "idle"]
  /\ op = [c \in Callers |-> [name |-> "none"]]
  /\ loc = [c \in Callers |-> NoLocals]
  /\ res = [c \in Callers |-> Pending]
  /\ ddlRuns = 0
  /\ uuids = 0
  /\ handle = "open"

InitMigrate ==
  /\ schema \in MigrateSchemas
  /\ db \in {EmptyDb, [EmptyDb EXCEPT !["people"] = LegacyPeople]}
  /\ InitCommon

NextMigrate ==
  \E c \in Callers :
    \/ CallMigrate(c)
    \/ MigrateCheck(c)
    \/ CreateTableStep(c)
    \/ MigrateResolve(c)

SpecMigrate == InitMigrate /\ [][NextMigrate]_vars

\* ---------------------------------------------------- the data specification
\* One caller at a time makes calls on a datastore of one table, people.
\* PeopleAuto has an auto-increment key, a unique name and a nullable
\* birthdate; PeopleUuid has a uuid key (no auto-increment column), a name
\* with a default value and a nullable birthdate.
NullableText == Obj("TEXT", {"nullable"}, TRUE, FALSE, FALSE, Null)

PeopleAuto ==
  Table("people",
        <<Column("id", Obj("INTEGER", {"autoIncrement"}, FALSE, FALSE, TRUE,
                           Null)),
          Column("name", Obj("TEXT", {"unique"}, FALSE, TRUE, FALSE, Null)),
          Column("birthdate", NullableText)>>,
        PrimaryKeyName("id"))

PeopleUuid ==
  Table("people",
        <<Column("id", Bare("uuid")),
          Column("name", Obj("TEXT", {"defaultValue"}, FALSE, FALSE, FALSE,
                             "anon")),
          Column("birthdate", NullableText)>>,
        PrimaryKeyAbsent)

DataSchemas == {<<PeopleAuto>>, <<PeopleUuid>>}

EmptyRecord == [cn \in {} |-> Null]

InsertRecords ==
  IF schema = <<PeopleAuto>>
  THEN {[name |-> "foo"], [name |-> "bar", birthdate |-> "d1"],
        [birthdate |-> "d1"], [name |-> "foo", extra |-> "x"]}
  ELSE {EmptyRecord, [id |-> "U1", name |-> "foo"],
        [id |-> "not-a-uuid", name |-> "bar"],
        [name |-> "bar", extra |-> "x"]}

InsertBatches == UNION {[1..n -> InsertRecords] : n \in 1..MaxBatch}

WhereInputs ==
  {Criteria(<<Equals("name", "foo")>>), Criteria(<<IsNull("birthdate")>>),
   Criteria(<<Compare("name", [neq |-> "foo"])>>),
   Criteria(<<InList("name", <<"foo", "bar">>), IsNull("birthdate")>>)}

DeleteInputs ==
  {DeleteOptions(FALSE, FALSE, NoCriteria),
   DeleteOptions(TRUE, FALSE, NoCriteria),
   DeleteOptions(FALSE, TRUE, Criteria(<<>>))}
  \cup {DeleteOptions(FALSE, TRUE, w) : w \in WhereInputs}

SetInputs ==
  {[name |-> "bar"], [birthdate |-> Null], [name |-> "bar", extra |-> "x"],
   EmptyRecord}
  \cup (IF schema = <<PeopleUuid>>
        THEN {[id |-> "not-a-uuid"], [id |-> "not-a-uuid", extra |-> "x"],
              [id |-> "U1"]}
        ELSE {})

UpdateInputs ==
  {DeleteOptions(FALSE, FALSE, NoCriteria),
   DeleteOptions(FALSE, TRUE, Criteria(<<Equals("name", "foo")>>))}

Init ==
  /\ schema \in DataSchemas
  /\ db = EmptyDb
  /\ InitCommon

Steps(c) ==
  \/ MigrateCheck(c)
  \/ CreateTableStep(c)
  \/ MigrateResolve(c)
  \/ InsertPrepare(c)
  \/ InsertRun(c)
  \/ InsertFinalize(c)
  \/ DeleteRun(c)
  \/ UpdateRun(c)

Next ==
  \E c \in {1} :
    \/ CallMigrate(c)
    \/ \E records \in InsertBatches : CallInsert(c, "people", records)
    \/ \E options \in DeleteInputs : CallDelete(c, "people", options)
    \/ \E set \in SetInputs : \E options \in UpdateInputs :
         CallUpdate(c, "people", set, options)
    \/ Steps(c)

Spec == Init /\ [][Next]_vars

\* ---------------------------------------------------- the race specification
\* Two callers each make their first call on the unmigrated datastore, every
\* one of them a call that succeeds on a migrated datastore.
RaceRecord(c) ==
  IF schema = <<PeopleAuto>>
  THEN (IF c = 1 THEN [name |-> "foo"] ELSE [name |-> "bar"])
  ELSE EmptyRecord

NextRace ==
  \E c \in Callers :
    \/ pc[c] = "idle" /\ CallMigrate(c)
    \/ pc[c] = "idle" /\ CallInsert(c, "people", <<RaceRecord(c)>>)
    \/ pc[c] = "idle"
         /\ CallDelete(c, "people", DeleteOptions(TRUE, FALSE, NoCriteria))
    \/ pc[c] = "idle"
         /\ CallUpdate(c, "people", [birthdate |-> "d1"],
                       DeleteOptions(FALSE, FALSE, NoCriteria))
    \/ Steps(c)

SpecRace == Init /\ [][NextRace]_vars

\* --------------------------------------------------- the query specification
\* One caller migrates, inserts, updates, selects and counts on a datastore
\* of one table, people, while another connection may drop the table.  The
\* table has the birthdate column of the README, with a parser and a
\* serializer that undo each other.
AutoIncrementKey == Obj("INTEGER", {"autoIncrement"}, FALSE, FALSE, TRUE, Null)

Birthdate ==
  ColumnObject("object", "TEXT", {"type", "nullable", "parse", "serialize"},
               TRUE, FALSE, FALSE, Null, "isoOrNull", "dateOrNull",
               "none", "none")

PeopleDated ==
  Table("people",
        <<Column("id", AutoIncrementKey),
          Column("name", Bare("TEXT")),
          Column("birthdate", Birthdate)>>,
        PrimaryKeyName("id"))

\* Two Date objects (and "not-a-date", a string that is no Date).
Date1 == "Date(2021-02-03T12:13:14.000Z)"
Date2 == "Date(2022-03-04T00:00:00.000Z)"

QueryBatches ==
  {<<[name |-> "foo"]>>, <<[name |-> "bar", birthdate |-> Date1]>>,
   <<[name |-> "bar", birthdate |-> "not-a-date"]>>,
   <<[name |-> "bar", birthdate |-> Null], [name |-> "foo"]>>}

QuerySets ==
  {[birthdate |-> Date2], [birthdate |-> Null], [birthdate |-> "not-a-date"],
   [name |-> "bar", birthdate |-> Date1]}

\* Criteria on name, on birthdate, and on both.
QueryWhere ==
  {NoCriteria, Criteria(<<>>),
   Criteria(<<Equals("name", "foo")>>),
   Criteria(<<InList("name", <<"foo", "bar">>)>>),
   Criteria(<<InList("name", <<>>)>>),
   Criteria(<<Compare("name", [gt |-> "bar"])>>),
   Criteria(<<Compare("name", [gte |-> "bar", lt |-> "foo"])>>),
   Criteria(<<Compare("name", [lte |-> "bar"])>>),
   Criteria(<<Compare("name", [like |-> "b%"])>>),
   Criteria(<<Compare("name", [eq |-> "foo"])>>),
   Criteria(<<IsNull("birthdate")>>),
   Criteria(<<InList("name", <<"bar", "baz">>),
              Compare("birthdate", [neq |-> "2022-03-04T00:00:00.000Z"])>>),
   Criteria(<<Equals("birthdate", "2021-02-03T12:13:14.000Z"),
              Equals("name", "bar")>>)}

CountWhere ==
  {NoCriteria, Criteria(<<Equals("name", "foo")>>),
   Criteria(<<IsNull("birthdate")>>)}

InitQuery ==
  /\ schema = <<PeopleDated>>
  /\ db = EmptyDb
  /\ InitCommon

NextQuery ==
  \/ \E c \in {1} :
       \/ CallMigrate(c)
       \/ \E records \in QueryBatches : CallInsert(c, "people", records)
       \/ \E set \in QuerySets : \E options \in UpdateInputs :
            CallUpdate(c, "people", set, options)
       \/ \E where \in QueryWhere : CallSelect(c, "people", where)
       \/ \E where \in CountWhere : CallCount(c, "people", where)
       \/ MigrateCheck(c)
       \/ CreateTableStep(c)
       \/ MigrateResolve(c)
       \/ InsertPrepare(c)
       \/ InsertRun(c)
       \/ InsertFinalize(c)
       \/ UpdateRun(c)
       \/ SelectStart(c)
       \/ SelectEach(c)
       \/ CountPrepare(c)
       \/ CountGet(c)
  \/ DropTable("people")

SpecQuery == InitQuery /\ [][NextQuery]_vars

\* --------------------------------------------------- the hooks specification
\* One caller migrates, inserts and updates on a datastore of one table,
\* people, with a column of each timestamp type.
PeopleStamped ==
  Table("people",
        <<Column("id", AutoIncrementKey),
          Column("name", Bare("TEXT")),
          Column("created_at", Bare("insert_timestamp")),
          Column("updated_at", Bare("update_timestamp"))>>,
        PrimaryKeyName("id"))

StampedBatches ==
  {<<[name |-> "foo"]>>, <<[name |-> "bar"]>>,
   <<[name |-> "foo", created_at |-> Date1]>>,
   <<[name |-> "foo", updated_at |-> Date1]>>,
   <<[name |-> "foo"], [name |-> "bar", updated_at |-> "T1"]>>,
   <<[name |-> "foo"], [name |-> "bar"]>>}

StampedSets ==
  {[name |-> "bar"], [name |-> "bar", updated_at |-> Null],
   [name |-> "bar", updated_at |-> Date1], [created_at |-> Date1],
   [created_at |-> Null]}

InitHooks ==
  /\ schema = <<PeopleStamped>>
  /\ db = EmptyDb
  /\ InitCommon

NextHooks ==
  \E c \in {1} :
    \/ CallMigrate(c)
    \/ \E records \in StampedBatches : CallInsert(c, "people", records)
    \/ \E set \in StampedSets : \E options \in UpdateInputs :
         CallUpdate(c, "people", set, options)
    \/ MigrateCheck(c)
    \/ CreateTableStep(c)
    \/ MigrateResolve(c)
    \/ InsertPrepare(c)
    \/ InsertRun(c)
    \/ InsertFinalize(c)
    \/ UpdateRun(c)

SpecHooks == InitHooks /\ [][NextHooks]_vars

\* --------------------------------------------------- the close specification
\* One caller makes calls of every kind, close among them, one after the
\* other, on the datastore with the auto-increment table.
InitClose ==
  /\ schema = <<PeopleAuto>>
  /\ db = EmptyDb
  /\ InitCommon

NextClose ==
  \E c \in {1} :
    \/ CallMigrate(c)
    \/ CallInsert(c, "people", <<[name |-> "foo"]>>)
    \/ CallDelete(c, "people", DeleteOptions(TRUE, FALSE, NoCriteria))
    \/ CallUpdate(c, "people", [birthdate |-> "d1"],
                  DeleteOptions(FALSE, FALSE, NoCriteria))
    \/ CallSelect(c, "people", NoCriteria)
    \/ CallCount(c, "people", NoCriteria)
    \/ CallClose(c)
    \/ MigrateCheck(c)
    \/ CreateTableStep(c)
    \/ MigrateResolve(c)
    \/ InsertPrepare(c)
    \/ InsertRun(c)
    \/ InsertFinalize(c)
    \/ DeleteRun(c)
    \/ UpdateRun(c)
    \/ SelectStart(c)
    \/ SelectEach(c)
    \/ CountPrepare(c)
    \/ CountGet(c)
    \/ CloseRun(c)

SpecClose == InitClose /\ [][NextClose]_vars

\* ------------------------------------------------ the statement specification
\* One caller builds the statements of select, count, delete and update for
\* criteria of every form on one and on two columns.
TextWhere ==
  LET NameEntries ==
        {Equals("name", "foo"), IsNull("name"),
         InList("name", <<>>), InList("name", <<"foo">>),
         InList("name", <<"foo", "bar">>),
         Compare("name", [eq |-> "foo"]), Compare("name", [like |-> "b%"]),
         Compare("name", [gte |-> "bar", lt |-> "foo"]),
         Compare("name", [lte |-> "baz", gt |-> "bar", neq |-> "c"]),
         Compare("name", NoOps), Compare("name", [between |-> "bar"])}
      BirthdateEntries ==
        {Equals("birthdate", "d1"), IsNull("birthdate"),
         InList("birthdate", <<"d1", "d2">>),
         Compare("birthdate", [neq |-> "d2"])}
  IN {NoCriteria, Criteria(<<>>)}
     \cup {Criteria(<<e>>) : e \in NameEntries \cup BirthdateEntries}
     \cup {Criteria(<<e, f>>) : e \in NameEntries, f \in BirthdateEntries}
     \cup {Criteria(<<f, e>>) : e \in NameEntries, f \in BirthdateEntries}

\* The caller has the statement of the method built, with its parameters.
Build(c, call, text) ==
  /\ op' = [op EXCEPT ![c] = call]
  /\ loc' = [loc EXCEPT ![c] = [NoLocals EXCEPT !.sql = text]]
  /\ pc' = [pc EXCEPT ![c] = "built"]
  /\ UNCHANGED <<schema, migrated, db, res, ddlRuns, uuids, handle>>

BuildSelect(c, tableName, where) ==
  Build(c, [name |-> "selectText", table |-> tableName, where |-> where,
            values |-> <<>>],
        selectText("*", tableName, where))

BuildCount(c, tableName, where) ==
  Build(c, [name |-> "countText", table |-> tableName, where |-> where,
            values |-> <<>>],
        selectText("COUNT(*)", tableName, where))

BuildDelete(c, tableName, options) ==
  Build(c, [name |-> "deleteText", table |-> tableName,
            where |-> IF options.hasWhere THEN options.where ELSE NoCriteria,
            values |-> <<>>],
        deleteText(tableName, options))

BuildUpdate(c, tableName, values, options) ==
  Build(c, [name |-> "updateText", table |-> tableName,
            where |-> IF options.hasWhere THEN options.where ELSE NoCriteria,
            values |-> values],
        updateText(tableName, values, options))

InitText ==
  /\ schema = <<PeopleAuto>>
  /\ db = EmptyDb
  /\ InitCommon

NextText ==
  LET TextOptions ==
        {DeleteOptions(TRUE, FALSE, NoCriteria)}
        \cup {DeleteOptions(FALSE, TRUE, where) : where \in TextWhere}
      TextValues ==
        {<<[column |-> "name", value |-> "bar"]>>,
         <<[column |-> "birthdate", value |-> "d1"],
           [column |-> "name", value |-> "foo"]>>,
         <<[column |-> "name", value |-> "baz"],
           [column |-> "birthdate", value |-> Null]>>}
  IN \E c \in {1} :
       \/ \E where \in TextWhere : BuildSelect(c, "people", where)
       \/ \E where \in TextWhere : BuildCount(c, "people", where)
       \/ \E options \in TextOptions : BuildDelete(c, "people", options)
       \/ \E values \in TextValues : \E options \in TextOptions :
            BuildUpdate(c, "people", values, options)

SpecText == InitText /\ [][NextText]_vars

\* ---------------------------------------------------- the where specification
\* One caller inserts, deletes and updates on the auto-increment table with
\* criteria whose value for name is a string, an operator object, or an
\* object that carries none of the operators.
InitWhere ==
  /\ schema = <<PeopleAuto>>
  /\ db = EmptyDb
  /\ InitCommon

NextWhere ==
  LET ObjectWhere ==
        {Criteria(<<Equals("name", "foo")>>),
         Criteria(<<Compare("name", [neq |-> "foo"])>>),
         Criteria(<<Compare("name", NoOps)>>),
         Criteria(<<Compare("name", [between |-> "bar"])>>),
         Criteria(<<Compare("name", NoOps), IsNull("birthdate")>>)}
  IN \E c \in {1} :
       \/ \E name \in {"foo", "bar"} :
            CallInsert(c, "people", <<[name |-> name]>>)
       \/ \E where \in ObjectWhere :
            CallDelete(c, "people", DeleteOptions(FALSE, TRUE, where))
       \/ \E where \in ObjectWhere :
            CallUpdate(c, "people", [birthdate |-> "d1"],
                       DeleteOptions(FALSE, TRUE, where))
       \/ MigrateCheck(c)
       \/ CreateTableStep(c)
       \/ InsertPrepare(c)
       \/ InsertRun(c)
       \/ InsertFinalize(c)
       \/ DeleteRun(c)
       \/ UpdateRun(c)

SpecWhere == InitWhere /\ [][NextWhere]_vars

\* ---------------------------------------------- the object-form specification
\* One caller migrates, inserts, updates, selects, counts and deletes on a
\* datastore whose table declares its timestamp column in object form,
\* { type: "update_timestamp", nullable: true }, while another connection
\* may drop the table.
PeopleRestamped ==
  Table("people",
        <<Column("id", AutoIncrementKey),
          Column("name", Bare("TEXT")),
          Column("updated_at",
                 Obj("update_timestamp", {"nullable"}, TRUE, FALSE, FALSE,
                     Null))>>,
        PrimaryKeyName("id"))

InitObjectForm ==
  /\ schema = <<PeopleRestamped>>
  /\ db = EmptyDb
  /\ InitCommon

NextObjectForm ==
  \/ \E c \in {1} :
       \/ CallMigrate(c)
       \/ \E name \in {"foo", "bar"} :
            CallInsert(c, "people", <<[name |-> name]>>)
       \/ CallUpdate(c, "people", [name |-> "baz"],
                     DeleteOptions(FALSE, FALSE, NoCriteria))
       \/ CallSelect(c, "people", NoCriteria)
       \/ CallCount(c, "people", NoCriteria)
       \/ CallDelete(c, "people", DeleteOptions(TRUE, FALSE, NoCriteria))
       \/ MigrateCheck(c)
       \/ CreateTableStep(c)
       \/ MigrateResolve(c)
       \/ InsertPrepare(c)
       \/ InsertRun(c)
       \/ InsertFinalize(c)
       \/ UpdateRun(c)
       \/ SelectStart(c)
       \/ SelectEach(c)
       \/ CountPrepare(c)
       \/ CountGet(c)
       \/ DeleteRun(c)
  \/ DropTable("people")

SpecObjectForm == InitObjectForm /\ [][NextObjectForm]_vars

\* ------------------------------------------------- properties of migration
\* The calls that ran the CREATE TABLE sequence themselves.
MigratingCalls == {c \in Callers : op[c].name = "migrate" /\ loc[c].idx > 0}

\* What a schema declares, read off the declaration alone.
DeclaredAutoIncrement(decl) ==
  decl.form = "object" /\ "autoIncrement" \in decl.has /\ decl.autoIncrement

DeclaredPrimaryKey(t) ==
  IF t.primaryKey.kind = "absent"
  THEN {"id"} \cap Range(ColumnNamesOf(t))
  ELSE Range(t.primaryKey.names)

AutoIncNotInKey(t) ==
  {i \in DOMAIN t.columns :
     /\ DeclaredAutoIncrement(t.columns[i].decl)
     /\ t.columns[i].name \notin DeclaredPrimaryKey(t)}

UnknownTyped(t) ==
  {i \in DOMAIN t.columns :
     t.columns[i].decl.type \notin SQLITE_TYPES \cup CustomTypeNames}

\* The declaration passes both type checks of createTable.
TypeAccepted(decl) ==
  LET r == resolveColumnSchema(decl)
  IN r.ok /\ isValidColumnType(r.val.type)

CreateStatementsOf(c) ==
  {k \in DOMAIN loc[c].stmts :
     loc[c].stmts[k].kind = "CREATE TABLE IF NOT EXISTS"}

NoCreateSentFor(tableName) ==
  \A c \in Callers : \A k \in CreateStatementsOf(c) :
    loc[c].stmts[k].table # tableName

C4_InvalidTypeRejected ==
  (\A i \in DOMAIN schema : AutoIncNotInKey(schema[i]) = {}) =>
    /\ \A i \in DOMAIN schema :
         UnknownTyped(schema[i]) # {} => NoCreateSentFor(schema[i].name)
    /\ \A c \in MigratingCalls :
         pc[c] = "done" =>
           \A i \in DOMAIN schema :
             UnknownTyped(schema[i]) # {} =>
               /\ res[c].status = "rejected"
               /\ res[c].error.class = "InvalidSchemaError"
               /\ \E j \in UnknownTyped(schema[i]) :
                    res[c].error.type = schema[i].columns[j].decl.type

C1_DeleteNeedsAllOrWhere ==
  \A c \in Callers :
    (/\ op[c].name = "delete"
     /\ ~op[c].options.hasAll
     /\ ~op[c].options.hasWhere)
    => /\ \A k \in DOMAIN loc[c].stmts : loc[c].stmts[k].kind # "DELETE"
       /\ pc[c] = "done" =>
            /\ res[c].status = "rejected"
            /\ db[op[c].table].rows = loc[c].before.rows

\* C2: when the first calls of two callers race on an unmigrated datastore,
\* the CREATE TABLE sequence is started at most once and every call resolves
\* without error.
C2_RacingFirstCalls ==
  /\ ddlRuns <= 1
  /\ \A c \in Callers : pc[c] = "done" => res[c].status = "resolved"

UnknownKeyRecords(c) ==
  {k \in DOMAIN op[c].records :
     DOMAIN op[c].records[k]
       \ Range(ColumnNamesOf(SchemaOf(op[c].table))) # {}}

NoneSent(c, kinds) ==
  \A k \in DOMAIN loc[c].stmts : loc[c].stmts[k].kind \notin kinds

RowsAsBefore(c) == db[op[c].table].rows = loc[c].before.rows

UpdateIsRefused(c) ==
  (/\ op[c].name = "update"
   /\ DOMAIN op[c].set \ Range(ColumnNamesOf(SchemaOf(op[c].table))) # {})
  => /\ NoneSent(c, {"UPDATE"})
     /\ RowsAsBefore(c)
     /\ pc[c] = "done" =>
          /\ res[c].status = "rejected"
          /\ res[c].error.class = "UpdateError"

NamesUnknownKey(c, k) ==
  /\ res[c].error.class = "InsertError"
  /\ res[c].error.table = op[c].table
  /\ res[c].error.column
       \in DOMAIN op[c].records[k]
             \ Range(ColumnNamesOf(SchemaOf(op[c].table)))

\* C6 as stated: an insert with a record that has a key that is no column
\* rejects with the InsertError naming the column and the table, an update
\* whose set has such a key rejects with UpdateError, and in both cases no
\* INSERT or UPDATE is executed and the rows are unchanged.
C6_AsStated ==
  \A c \in Callers :
    /\ UpdateIsRefused(c)
    /\ (op[c].name = "insert" /\ UnknownKeyRecords(c) # {})
       => /\ NoneSent(c, {"INSERT", "UPDATE"})
          /\ RowsAsBefore(c)
          /\ pc[c] = "done" =>
               /\ res[c].status = "rejected"
               /\ \E k \in UnknownKeyRecords(c) : NamesUnknownKey(c, k)

\* C6: an insert with a record that has a key that is no column rejects, no
\* INSERT or UPDATE is executed and the rows are unchanged; the rejection is
\* the InsertError naming the column and the table of the first such record
\* unless a before-insert hook threw for a record before it.  An update
\* whose set has such a key rejects with UpdateError, executes nothing and
\* leaves the rows unchanged.
C6_UnknownKeyRefused ==
  \A c \in Callers :
    /\ UpdateIsRefused(c)
    /\ (op[c].name = "insert" /\ UnknownKeyRecords(c) # {})
       => /\ NoneSent(c, {"INSERT", "UPDATE"})
          /\ RowsAsBefore(c)
          /\ pc[c] = "done" =>
               /\ res[c].status = "rejected"
               /\ LET k == Min(UnknownKeyRecords(c))
                  IN getRecordsForInsert(op[c].table, SchemaOf(op[c].table),
                                         SubSeq(op[c].records, 1, k - 1),
                                         0, "T1").ok
                     => NamesUnknownKey(c, k)

\* An insert of two records into a table that holds a row was rejected for
\* the key extra of the second record; the table holds the same row.
C6_Witness ==
  \E c \in Callers :
    /\ op[c].name = "insert"
    /\ pc[c] = "done"
    /\ UnknownKeyRecords(c) = {2}
    /\ res[c].status = "rejected"
    /\ res[c].error.class = "InsertError"
    /\ res[c].error.column = "extra"
    /\ Len(loc[c].before.rows) = 1
    /\ RowsAsBefore(c)

\* The row the table holds at position pos carries what the record gave.
RowCarries(c, pos, k) ==
  \A cn \in DOMAIN op[c].records[k] :
    db[op[c].table].rows[pos].vals[cn] = op[c].records[k][cn]

\* C7: when the engine fails on the k-th record of an insert, the rows the
\* table held stay, the rows of records 1..k-1 are added after them and no
\* other, the prepared statement is finalized, and the insert rejects with
\* the adapted error of the k-th record alone: the unique-constraint error
\* naming the column and the table for a UNIQUE failure, the engine's own
\* error otherwise.
C7_BatchFailure ==
  \A c \in Callers :
    (op[c].name = "insert" /\ pc[c] = "done" /\ loc[c].failed)
    => LET k == loc[c].k
           held == Len(loc[c].before.rows)
           rows == db[op[c].table].rows
       IN /\ Len(rows) = held + (k - 1)
          /\ SubSeq(rows, 1, held) = loc[c].before.rows
          /\ \A i \in 1..(k - 1) : RowCarries(c, held + i, i)
          /\ loc[c].statement = "finalized"
          /\ res[c].status = "rejected"
          /\ loc[c].err.text = "UNIQUE constraint failed"
               => /\ res[c].error.class = "UniqueConstraintViolationError"
                  /\ res[c].error.column = loc[c].err.column
                  /\ res[c].error.table = op[c].table
          /\ loc[c].err.text # "UNIQUE constraint failed"
               => res[c].error = loc[c].err

\* An insert of bar and foo into a table that holds foo: bar went in, foo
\* was refused as a duplicate name, and the insert was rejected for it.
C7_Witness ==
  \E c \in Callers :
    /\ op[c].name = "insert"
    /\ pc[c] = "done"
    /\ loc[c].failed
    /\ loc[c].k = 2
    /\ Len(loc[c].before.rows) = 1
    /\ Len(db["people"].rows) = 2
    /\ db["people"].rows[2].vals.name = "bar"
    /\ res[c].status = "rejected"
    /\ res[c].error.class = "UniqueConstraintViolationError"
    /\ res[c].error.column = "name"

HasAutoIncrement(t) ==
  \E i \in DOMAIN t.columns : DeclaredAutoIncrement(t.columns[i].decl)

\* C8: the result of an insert has an ids field exactly when the table has
\* an auto-increment column, and its count is the number of records given.
C8_IdsOnlyWithAutoIncrement ==
  \A c \in Callers :
    (op[c].name = "insert" /\ pc[c] = "done" /\ res[c].status = "resolved")
    => /\ "ids" \in res[c].value.has
            <=> HasAutoIncrement(SchemaOf(op[c].table))
       /\ res[c].value.count = Len(op[c].records)

\* C9: an insert of N records into the table with the auto-increment key
\* resolves with N ids that are strictly increasing, start right after the
\* largest id the table ever handed out (so above every id of an earlier
\* call), and are the ids of the records in the order given.
C9_IdSequence ==
  \A c \in Callers :
    (/\ op[c].name = "insert" /\ pc[c] = "done"
     /\ res[c].status = "resolved" /\ schema = <<PeopleAuto>>)
    => LET ids == res[c].value.ids
           rows == db[op[c].table].rows
       IN /\ Len(ids) = Len(op[c].records)
          /\ \A i, j \in DOMAIN ids : i < j => ids[i] < ids[j]
          /\ ids[1] = loc[c].before.seq + 1
          /\ \A k \in DOMAIN loc[c].before.rows :
               loc[c].before.rows[k].rowid < ids[1]
          /\ \A i \in DOMAIN ids :
               \E pos \in DOMAIN rows :
                 /\ rows[pos].rowid = ids[i]
                 /\ rows[pos].vals.id = ids[i]
                 /\ RowCarries(c, pos, i)

\* After the ids 1 and 2 were handed out and their rows deleted, an insert
\* of foo and bar into the empty table resolved with the ids 3 and 4.
C9_Witness ==
  \E c \in Callers :
    /\ op[c].name = "insert"
    /\ pc[c] = "done"
    /\ schema = <<PeopleAuto>>
    /\ res[c].status = "resolved"
    /\ res[c].value.ids = <<3, 4>>
    /\ loc[c].before.rows = <<>>
    /\ loc[c].before.seq = 2
    /\ op[c].records[1].name = "foo"
    /\ db["people"].rows[1].vals.name = "foo"
    /\ db["people"].rows[1].vals.id = 3

\* C10: an insert whose records name only columns of the table is never
\* rejected by the engine for a column that a record leaves out.
C10_AbsentColumnsAccepted ==
  \A c \in Callers :
    (op[c].name = "insert" /\ pc[c] = "done" /\ UnknownKeyRecords(c) = {})
    => ~(/\ res[c].status = "rejected"
         /\ res[c].error.errno = 19
         /\ res[c].error.text = "NOT NULL constraint failed")

\* The columns of the table that are declared unique.
UniqueColumnsOf(tableSchema) ==
  {tableSchema.columns[i].name :
     i \in {j \in DOMAIN tableSchema.columns :
              LET r == resolveColumnSchema(tableSchema.columns[j].decl)
              IN r.ok /\ r.val.unique}}

\* The record of the call's last INSERT statement (the call has run one).
LastRun(c) == IF loc[c].failed THEN loc[c].k ELSE loc[c].k - 1

\* The rows the table held when the call's last INSERT statement ran.
RowsAtLastRun(c) ==
  SubSeq(db[op[c].table].rows, 1,
         Len(loc[c].before.rows) + LastRun(c) - 1)

\* The unique columns for which the record of the last INSERT gave a value
\* that a row of the table already held.
TakenColumns(c) ==
  {cn \in UniqueColumnsOf(SchemaOf(op[c].table))
         \cap DOMAIN op[c].records[LastRun(c)] :
     /\ op[c].records[LastRun(c)][cn] # Null
     /\ \E k \in DOMAIN RowsAtLastRun(c) :
          RowsAtLastRun(c)[k].vals[cn] = op[c].records[LastRun(c)][cn]}

RanInsert(c) ==
  /\ op[c].name = "insert"
  /\ pc[c] = "done"
  /\ \E k \in DOMAIN loc[c].stmts : loc[c].stmts[k].kind = "INSERT"

\* C11: an insert that runs the INSERT of a record whose value for a unique
\* column is already held by a row of the table rejects with
\* UniqueConstraintViolationError carrying the table and that column; the
\* record is not added and the rows the table held are unchanged.
C11_UniqueViolation ==
  \A c \in Callers :
    (RanInsert(c) /\ TakenColumns(c) # {})
    => /\ res[c].status = "rejected"
       /\ res[c].error.class = "UniqueConstraintViolationError"
       /\ res[c].error.table = op[c].table
       /\ res[c].error.column \in TakenColumns(c)
       /\ db[op[c].table].rows = RowsAtLastRun(c)
       /\ SubSeq(db[op[c].table].rows, 1, Len(loc[c].before.rows))
            = loc[c].before.rows

\* The table with the uuid key held the row U1; an insert of a record with
\* the id U1 was rejected for people.id and the table holds that row alone.
C11_Witness ==
  \E c \in Callers :
    /\ RanInsert(c)
    /\ schema = <<PeopleUuid>>
    /\ Len(op[c].records) = 1
    /\ TakenColumns(c) = {"id"}
    /\ res[c].status = "rejected"
    /\ res[c].error.class = "UniqueConstraintViolationError"
    /\ res[c].error.table = "people"
    /\ res[c].error.column = "id"
    /\ Len(loc[c].before.rows) = 1
    /\ db["people"].rows = loc[c].before.rows

\* ------------------------------------------------ properties of the queries
\* The call was made on the migrated datastore when its table was missing
\* from the database, and it is over.
OnMissingTable(c) ==
  /\ pc[c] = "done"
  /\ loc[c].idx = 0
  /\ ~loc[c].before.exists
  /\ \E k \in DOMAIN loc[c].stmts : loc[c].stmts[k].table = op[c].table

\* C12: a select and a count made on the migrated datastore when the table
\* is missing from the database (dropped by another connection) reject with
\* NoSuchTableError carrying the name of the table.
C12_MissingTable ==
  \A c \in Callers :
    (op[c].name \in {"select", "count"} /\ OnMissingTable(c))
    => /\ res[c].status = "rejected"
       /\ res[c].error.class = "NoSuchTableError"
       /\ res[c].error.table = op[c].table

\* A count on the table after an earlier call created it and another
\* connection dropped it: rejected with NoSuchTableError for people.
C12_Witness ==
  \E c \in Callers :
    /\ op[c].name = "count"
    /\ OnMissingTable(c)
    /\ migrated
    /\ uuids = 0 /\ ddlRuns = 1
    /\ loc[c].stmts[1].kind = "PREPARE COUNT"
    /\ res[c].status = "rejected"
    /\ res[c].error.class = "NoSuchTableError"
    /\ res[c].error.table = "people"

\* What one operator of an operator object asks of the value of a column;
\* as in SQL, no comparison holds of a column that is NULL.
OperatorHolds(operator, value, operand) ==
  /\ value # Null
  /\ operand # Null
  /\ CASE operator = "eq" -> value = operand
       [] operator = "neq" -> value # operand
       [] operator = "gt" -> TextRank(value) > TextRank(operand)
       [] operator = "gte" -> TextRank(value) >= TextRank(operand)
       [] operator = "lt" -> TextRank(value) < TextRank(operand)
       [] operator = "lte" -> TextRank(value) <= TextRank(operand)
       [] operator = "like" -> Like(value, operand)

\* What one entry of a criteria object asks of a row.
EntryHolds(vals, entry) ==
  CASE entry.form = "scalar" ->
         vals[entry.column] # Null /\ vals[entry.column] = entry.value
    [] entry.form = "null" -> vals[entry.column] = Null
    [] entry.form = "array" ->
         /\ vals[entry.column] # Null
         /\ \E k \in DOMAIN entry.value :
              entry.value[k] = vals[entry.column]
    [] entry.form = "object" ->
         \A operator \in DOMAIN entry.ops :
           OperatorHolds(operator, vals[entry.column], entry.ops[operator])

\* The row satisfies every entry of the criteria (any row, without one).
Satisfies(vals, where) ==
  where.given => \A k \in DOMAIN where.entries :
                   EntryHolds(vals, where.entries[k])

\* The rows the table held when the call was made that satisfy its criteria,
\* in table order.
RowsSatisfying(c) ==
  LET Hit(row) == Satisfies(row.vals, op[c].where)
  IN SelectSeq(loc[c].before.rows, Hit)

Targeted(c, row) ==
  op[c].options.hasWhere => Satisfies(row.vals, op[c].options.where)

\* C14: a delete given all: true or a where resolves, removes exactly the
\* rows that satisfy the criteria (every row for all: true and for an empty
\* where), returns their number as count, and leaves the other rows, their
\* order and their values as they were.
C14_DeleteFrame ==
  \A c \in Callers :
    (/\ op[c].name = "delete" /\ pc[c] = "done"
     /\ op[c].options.hasAll \/ op[c].options.hasWhere)
    => LET Hit(row) == Targeted(c, row)
           Stays(row) == ~Targeted(c, row)
       IN /\ res[c].status = "resolved"
          /\ res[c].value.count = Len(SelectSeq(loc[c].before.rows, Hit))
          /\ db[op[c].table].rows = SelectSeq(loc[c].before.rows, Stays)
          /\ (op[c].options.hasAll \/ op[c].options.where.entries = <<>>)
               => /\ db[op[c].table].rows = <<>>
                  /\ res[c].value.count = Len(loc[c].before.rows)

\* The table held foo and bar; the delete of the rows named foo returned
\* count 1 and the table holds the row bar as it was.
C14_Witness ==
  \E c \in Callers :
    /\ op[c].name = "delete"
    /\ pc[c] = "done"
    /\ op[c].options = DeleteOptions(FALSE, TRUE,
                                     Criteria(<<Equals("name", "foo")>>))
    /\ Len(loc[c].before.rows) = 2
    /\ loc[c].before.rows[1].vals.name = "foo"
    /\ loc[c].before.rows[2].vals.name = "bar"
    /\ res[c].status = "resolved"
    /\ res[c].value.count = 1
    /\ db["people"].rows = <<loc[c].before.rows[2]>>

\* The UPDATE statement the call ran (it ran one).
UpdateSent(c) ==
  loc[c].stmts[CHOOSE k \in DOMAIN loc[c].stmts :
                 loc[c].stmts[k].kind = "UPDATE"]

\* The final SET map of the call: column -> value bound.
SetMap(c) ==
  [cn \in {UpdateSent(c).set[a].column : a \in DOMAIN UpdateSent(c).set} |->
     UpdateSent(c).set[CHOOSE a \in DOMAIN UpdateSent(c).set :
                         UpdateSent(c).set[a].column = cn].value]

\* C15: an update that resolves changed exactly the rows that satisfy where
\* (every row without a where) and returns their number as count; in those
\* rows the columns of the final SET map hold its values and every other
\* column its old value; every other row is as it was.  (Stated of the
\* table as the update left it: not after another connection dropped it.)
C15_UpdateFrame ==
  \A c \in Callers :
    (/\ op[c].name = "update" /\ pc[c] = "done"
     /\ res[c].status = "resolved" /\ db[op[c].table].exists)
    => LET old == loc[c].before.rows
           new == db[op[c].table].rows
           Hit(row) == Targeted(c, row)
       IN /\ res[c].value.count = Len(SelectSeq(old, Hit))
          /\ DOMAIN SetMap(c) = DOMAIN op[c].set
          /\ Len(new) = Len(old)
          /\ \A i \in DOMAIN old :
               /\ new[i].rowid = old[i].rowid
               /\ ~Targeted(c, old[i]) => new[i] = old[i]
               /\ Targeted(c, old[i]) =>
                    \A cn \in DOMAIN old[i].vals :
                      new[i].vals[cn] = IF cn \in DOMAIN SetMap(c)
                                        THEN SetMap(c)[cn]
                                        ELSE old[i].vals[cn]

\* The table held foo without a birthdate and bar with one; the update of
\* the birthdate of the rows named foo returned count 1, wrote the
\* serialized date to foo and left its name and the row bar as they were.
C15_Witness ==
  \E c \in Callers :
    /\ op[c].name = "update"
    /\ pc[c] = "done"
    /\ res[c].status = "resolved"
    /\ op[c].set = [birthdate |-> Date2]
    /\ op[c].options.hasWhere
    /\ Len(loc[c].before.rows) = 2
    /\ loc[c].before.rows[1].vals.name = "foo"
    /\ loc[c].before.rows[1].vals.birthdate = Null
    /\ loc[c].before.rows[2].vals.name = "bar"
    /\ loc[c].before.rows[2].vals.birthdate = "2021-02-03T12:13:14.000Z"
    /\ res[c].value.count = 1
    /\ db["people"].rows[1].vals.birthdate = "2022-03-04T00:00:00.000Z"
    /\ db["people"].rows[1].vals.name = "foo"
    /\ db["people"].rows[2] = loc[c].before.rows[2]

\* ------------------------------------------------- properties of the hooks
\* The columns of the table declared with the given custom type.
ColumnsOfType(tableSchema, type) ==
  {tableSchema.columns[i].name :
     i \in {j \in DOMAIN tableSchema.columns :
              tableSchema.columns[j].decl = Bare(type)}}

\* C16: after an update on a table with an update_timestamp column, every
\* row the update affected holds the time of the update in that column,
\* whether or not set names the column.
C16_UpdateTimestampWritten ==
  \A c \in Callers :
    (op[c].name = "update" /\ pc[c] = "done" /\ res[c].status = "resolved")
    => \A cn \in ColumnsOfType(SchemaOf(op[c].table), "update_timestamp") :
         \A i \in DOMAIN loc[c].before.rows :
           Targeted(c, loc[c].before.rows[i])
           => db[op[c].table].rows[i].vals[cn] = loc[c].now

TimestampColumns(tableSchema) ==
  ColumnsOfType(tableSchema, "insert_timestamp")
    \cup ColumnsOfType(tableSchema, "update_timestamp")

\* The record or set gives a value that is not null for a timestamp column.
GivesTimestamp(tableSchema, record) ==
  \E cn \in TimestampColumns(tableSchema) \cap DOMAIN record :
    record[cn] # Null

MalformedIn(tableSchema, record) ==
  {cn \in ColumnsOfType(tableSchema, "uuid") \cap DOMAIN record :
     record[cn] # Null /\ ~IsUuid(record[cn])}

MalformedRecords(c) ==
  {k \in DOMAIN op[c].records :
     MalformedIn(SchemaOf(op[c].table), op[c].records[k]) # {}}

\* What C18 says of the calls that resolve: every row an insert added holds
\* in a uuid column the identifier its record gave, or a well-formed one if
\* it gave none; every row an update affected holds the identifier of set.
UuidStored(c) ==
  LET tableSchema == SchemaOf(op[c].table)
      held == Len(loc[c].before.rows)
      rows == db[op[c].table].rows
  IN /\ (op[c].name = "insert" /\ pc[c] = "done"
         /\ res[c].status = "resolved")
        => \A k \in DOMAIN op[c].records :
             \A cn \in ColumnsOfType(tableSchema, "uuid") :
               IF cn \in DOMAIN op[c].records[k]
                  /\ op[c].records[k][cn] # Null
               THEN rows[held + k].vals[cn] = op[c].records[k][cn]
               ELSE IsUuid(rows[held + k].vals[cn])
     /\ (op[c].name = "update" /\ pc[c] = "done"
         /\ res[c].status = "resolved")
        => \A cn \in ColumnsOfType(tableSchema, "uuid") \cap DOMAIN op[c].set :
             op[c].set[cn] # Null
             => \A i \in DOMAIN loc[c].before.rows :
                  Targeted(c, loc[c].before.rows[i])
                  => rows[i].vals[cn] = op[c].set[cn]

\* What C18 says of a malformed identifier: nothing is written and the call
\* rejects; with InvalidUUIDError whenever first holds.
MalformedRefused(c, first) ==
  /\ (op[c].name = "insert" /\ MalformedRecords(c) # {})
     => /\ NoneSent(c, {"INSERT", "UPDATE"})
        /\ RowsAsBefore(c)
        /\ pc[c] = "done"
             => /\ res[c].status = "rejected"
                /\ first => res[c].error.class = "InvalidUUIDError"
  /\ (op[c].name = "update"
      /\ MalformedIn(SchemaOf(op[c].table), op[c].set) # {})
     => /\ NoneSent(c, {"INSERT", "UPDATE"})
        /\ RowsAsBefore(c)
        /\ pc[c] = "done"
             => /\ res[c].status = "rejected"
                /\ first => res[c].error.class = "InvalidUUIDError"

\* No key that is no column is refused before the malformed identifier: the
\* set has none; the records up to the first malformed one have none.
NoUnknownKeyFirst(c) ==
  IF op[c].name = "update"
  THEN DOMAIN op[c].set \ Range(ColumnNamesOf(SchemaOf(op[c].table))) = {}
  ELSE \A k \in UnknownKeyRecords(c) : k > Min(MalformedRecords(c))

SerializedColumns(tableSchema) ==
  {tableSchema.columns[i].name :
     i \in {j \in DOMAIN tableSchema.columns :
              {"serialize", "parse"} \subseteq tableSchema.columns[j].decl.has}}

\* The value a record or set gives for the column (null when it has none).
Given(record, cn) == IF cn \in DOMAIN record THEN record[cn] ELSE Null

\* C19: for a column that declares serialize and parse, with parse undoing
\* serialize: a select returns every row as parseRow reads it from the
\* table, and read that way every row an insert added holds the value its
\* record gave and every row an update affected the value of set.  (Stated
\* of the table as the call left it: not after another connection dropped
\* it.)
C19_RoundTrip ==
  \A c \in Callers :
    (/\ op[c].name \in {"select", "insert", "update"}
     /\ pc[c] = "done" /\ res[c].status = "resolved"
     /\ db[op[c].table].exists)
    => LET tableSchema == SchemaOf(op[c].table)
           held == Len(loc[c].before.rows)
           rows == db[op[c].table].rows
       IN \A cn \in SerializedColumns(tableSchema) :
            /\ op[c].name = "select"
                 => \A i \in DOMAIN res[c].value :
                      res[c].value[i][cn]
                        = parseRow(tableSchema, RowsSatisfying(c)[i].vals)[cn]
            /\ op[c].name = "insert"
                 => \A k \in DOMAIN op[c].records :
                      parseRow(tableSchema, rows[held + k].vals)[cn]
                        = Given(op[c].records[k], cn)
            /\ (op[c].name = "update" /\ cn \in DOMAIN op[c].set)
                 => \A i \in DOMAIN loc[c].before.rows :
                      Targeted(c, loc[c].before.rows[i])
                      => parseRow(tableSchema, rows[i].vals)[cn]
                           = op[c].set[cn]

\* A select of all rows returned one row with the birthdate an update gave
\* (stored as its ISO string) and one with the birthdate an insert gave.
C19_Witness ==
  \E c \in Callers :
    /\ op[c].name = "select"
    /\ pc[c] = "done"
    /\ res[c].status = "resolved"
    /\ Len(res[c].value) = 2
    /\ res[c].value[1].birthdate = Date2
    /\ res[c].value[2].birthdate = Date1
    /\ loc[c].before.rows[1].vals.birthdate = "2022-03-04T00:00:00.000Z"
    /\ loc[c].before.rows[2].vals.birthdate = "2021-02-03T12:13:14.000Z"

\* ---------------------------------------------------- properties of close
\* The call that closed the handle.
ClosingCall(c) == op[c].name = "close" /\ res[c].status = "resolved"

\* C20: once close() has resolved, every later call of the caller (insert,
\* select, count, update, delete, migrate, close) rejects, and the table it
\* names is as it was when the call was made.
C20_UnusableAfterClose ==
  \A c \in Callers :
    (handle = "closed" /\ pc[c] = "done" /\ ~ClosingCall(c))
    => /\ res[c].status = "rejected"
       /\ op[c].name \in {"insert", "select", "count", "update", "delete"}
            => db[op[c].table] = loc[c].before

\* ------------------------------------------------ properties of count
\* C21: a count that resolves gives the number of rows a select with the
\* same criteria returns on the same table state (the rows that satisfy the
\* criteria, as C13 has it), and without criteria the number of all rows.
C21_CountIsSelectLength ==
  \A c \in Callers :
    (op[c].name = "count" /\ pc[c] = "done" /\ res[c].status = "resolved")
    => /\ res[c].value = Len(RowsSatisfying(c))
       /\ ~op[c].where.given => res[c].value = Len(loc[c].before.rows)

\* The table held two rows, one of them foo; the count of the rows named foo
\* gave 1.
C21_Witness ==
  \E c \in Callers :
    /\ op[c].name = "count"
    /\ pc[c] = "done"
    /\ res[c].status = "resolved"
    /\ op[c].where = Criteria(<<Equals("name", "foo")>>)
    /\ Len(loc[c].before.rows) = 2
    /\ res[c].value = 1

\* ------------------------------------- properties of the order of migration
\* The statements of its operation a call has sent: all but CREATE TABLE.
OperationStatements(c) == DOMAIN loc[c].stmts \ CreateStatementsOf(c)

\* C22: while the CREATE TABLE sequence of the schema is still under way, no
\* call has prepared or run a statement of its operation.
C22_NothingAheadOfMigration ==
  \A o \in Callers :
    pc[o] = "createTable" => \A c \in Callers : OperationStatements(c) = {}

\* The migrate() call of c ran the CREATE TABLE sequence and rejected.
FailedMigration(c) ==
  /\ op[c].name = "migrate"
  /\ loc[c].idx > 0
  /\ pc[c] = "done"
  /\ res[c].status = "rejected"

\* C23: once the migrate() call that ran the CREATE TABLE sequence has
\* rejected, and no sequence is under way, the instance is not marked as
\* migrated.
C23_FailedMigrationNotRecorded ==
  \A c \in Callers :
    (FailedMigration(c) /\ \A o \in Callers : pc[o] # "createTable")
    => ~migrated

\* ------------------------------------------ properties of the statement text
\* The callers that have a statement built.
Builders == {c \in Callers : pc[c] = "built"}

\* Where the placeholders of a text are, and the k-th of them.
PlaceholdersOf(text) == {i \in DOMAIN text : text[i] = "?"}

NthPlaceholder(text, k) ==
  CHOOSE i \in PlaceholdersOf(text) :
    Cardinality({j \in PlaceholdersOf(text) : j <= i}) = k

\* Where the WHERE clause of a text starts (past its end: there is none).
WhereStart(text) ==
  Min({i \in DOMAIN text : text[i] = "WHERE"} \cup {Len(text) + 1})

ComparisonTokens == {"=", "!=", ">", ">=", "<", "<=", "LIKE"}

\* What the placeholder at i stands in: the column and the operator of its
\* comparison, and the item of the IN list it is.
PlaceholderContext(text, i) ==
  IF text[i - 1] \in ComparisonTokens
  THEN [column |-> text[i - 2], operator |-> text[i - 1], item |-> 1]
  ELSE LET j == Max({m \in 1..i : text[m] = "IN"})
       IN [column |-> text[j - 1], operator |-> "IN",
           item |-> Cardinality({m \in j..i : text[m] = "?"})]

\* The operator of a criteria object a comparison of the text is for.
OperatorOfToken(token) ==
  CASE token = "=" -> "eq" [] token = "!=" -> "neq" [] token = ">" -> "gt"
    [] token = ">=" -> "gte" [] token = "<" -> "lt" [] token = "<=" -> "lte"
    [] token = "LIKE" -> "like"

\* The value the call gave for the placeholder at i of its text: of the SET
\* entry of the column before WHERE, of the criteria entry of the column
\* after it.
MeantFor(c, i) ==
  LET text == loc[c].sql.sql
      ctx == PlaceholderContext(text, i)
  IN IF i < WhereStart(text)
     THEN (CHOOSE v \in Range(op[c].values) : v.column = ctx.column).value
     ELSE LET e == CHOOSE e \in Range(op[c].where.entries) :
                     e.column = ctx.column
          IN IF ctx.operator = "IN" THEN e.value[ctx.item]
             ELSE IF e.form = "scalar" THEN e.value
             ELSE e.ops[OperatorOfToken(ctx.operator)]

RECURSIVE FlatParams(_)
FlatParams(fragments) ==
  IF fragments = <<>> THEN <<>>
  ELSE Head(fragments).params \o FlatParams(Tail(fragments))

\* C24: in every statement built for select, count, delete and update there
\* are as many ? placeholders as parameters and the k-th parameter is the
\* value the call gave for the k-th placeholder; the parameters of an update
\* are the SET values in key order followed by the WHERE parameters.
C24_PlaceholdersAligned ==
  \A c \in Builders :
    LET text == loc[c].sql.sql
        params == loc[c].sql.params
    IN /\ Cardinality(PlaceholdersOf(text)) = Len(params)
       /\ \A k \in DOMAIN params :
            params[k] = MeantFor(c, NthPlaceholder(text, k))
       /\ params = [i \in DOMAIN op[c].values |-> op[c].values[i].value]
                    \o FlatParams(buildWhereClause(op[c].where))

\* The update of birthdate and name where name is in (foo, bar) and
\* birthdate is not d2 is built with two placeholders in SET and three in
\* WHERE.
C24_Witness ==
  \E c \in Builders :
    /\ op[c].name = "updateText"
    /\ op[c].where = Criteria(<<InList("name", <<"foo", "bar">>),
                                Compare("birthdate", [neq |-> "d2"])>>)
    /\ loc[c].sql.params = <<"d1", "foo", "foo", "bar", "d2">>
    /\ Cardinality(PlaceholdersOf(loc[c].sql.sql)) = 5

\* The conditions of a WHERE clause: its text after WHERE, cut at every AND.
RECURSIVE SplitAtAnd(_, _)
SplitAtAnd(tokens, part) ==
  IF tokens = <<>> THEN (IF part = <<>> THEN <<>> ELSE <<part>>)
  ELSE IF Head(tokens) = "AND"
  THEN <<part>> \o SplitAtAnd(Tail(tokens), <<>>)
  ELSE SplitAtAnd(Tail(tokens), Append(part, Head(tokens)))

ConditionsOf(text) ==
  SplitAtAnd(SubSeq(text, WhereStart(text) + 1, Len(text)), <<>>)

\* Each condition with the parameters of its placeholders, taken from the
\* list in order.
RECURSIVE WithParams(_, _)
WithParams(conditions, params) ==
  IF conditions = <<>> THEN <<>>
  ELSE LET n == Cardinality(PlaceholdersOf(Head(conditions)))
       IN <<[sql |-> Head(conditions), params |-> SubSeq(params, 1, n)]>>
          \o WithParams(Tail(conditions), SubSeq(params, n + 1, Len(params)))

\* The SQL comparison the criteria compiler is to emit for an operator.
ClaimedComparison(operator) ==
  CASE operator = "eq" -> "=" [] operator = "neq" -> "!="
    [] operator = "gt" -> ">" [] operator = "gte" -> ">="
    [] operator = "lt" -> "<" [] operator = "lte" -> "<="
    [] operator = "like" -> "LIKE"

ClaimedOperators == {"eq", "neq", "gt", "gte", "lt", "lte", "like"}

\* The conditions an entry of a criteria map is to give, each with its
\* parameters.
ClaimedConditions(entry) ==
  CASE entry.form = "null" ->
         {[sql |-> <<"(", entry.column, "IS NULL", ")">>, params |-> <<>>]}
    [] entry.form = "array" ->
         {[sql |-> <<"(", entry.column, "IN", "(">>
                   \o [i \in 1..(2 * Len(entry.value) - 1) |->
                         IF i % 2 = 1 THEN "?" ELSE ","]
                   \o <<")", ")">>,
           params |-> entry.value]}
    [] entry.form = "object" ->
         {[sql |-> <<"(", entry.column, ClaimedComparison(o), "?", ")">>,
           params |-> <<entry.ops[o]>>] :
            o \in DOMAIN entry.ops \cap ClaimedOperators}
    [] entry.form = "scalar" ->
         {[sql |-> <<"(", entry.column, "=", "?", ")">>,
           params |-> <<entry.value>>]}

\* How many conditions the entries before the k-th are to give.
RECURSIVE ClaimedBefore(_, _)
ClaimedBefore(entries, k) ==
  IF k = 1 THEN 0
  ELSE ClaimedBefore(entries, k - 1)
       + Cardinality(ClaimedConditions(entries[k - 1]))

\* C25: the WHERE clause built for a criteria map is the conjunction, in the
\* order of the entries, of ("col" IS NULL) without parameter for a null
\* value, ("col" IN (?, ...)) with the elements as parameters for an array,
\* one comparison with one parameter for every operator among eq, neq, gt,
\* gte, lt, lte, like an operator object carries, and ("col" = ?) with the
\* value for any other scalar; it is empty, without parameters, for empty
\* and absent criteria.
C25_CriteriaCompiler ==
  \A c \in Builders :
    LET text == loc[c].sql.sql
        entries == op[c].where.entries
        whereParams == SubSeq(loc[c].sql.params, Len(op[c].values) + 1,
                              Len(loc[c].sql.params))
        built == WithParams(ConditionsOf(text), whereParams)
    IN /\ Len(built) = ClaimedBefore(entries, Len(entries) + 1)
       /\ \A k \in DOMAIN entries :
            {built[j] : j \in (ClaimedBefore(entries, k) + 1)
                               ..ClaimedBefore(entries, k + 1)}
              = ClaimedConditions(entries[k])
       /\ entries = <<>>
            => /\ WhereStart(text) = Len(text) + 1
               /\ whereParams = <<>>

\* The select of the rows whose birthdate is null and whose name is at least
\* bar and below foo is built as
\* WHERE ("birthdate" IS NULL) AND ("name" >= ?) AND ("name" < ?).
C25_Witness ==
  \E c \in Builders :
    /\ op[c].name = "selectText"
    /\ op[c].where = Criteria(<<IsNull("birthdate"),
                                Compare("name", [gte |-> "bar",
                                                 lt |-> "foo"])>>)
    /\ loc[c].sql.sql = <<"SELECT", "*", "FROM", "people", "WHERE",
                          "(", "birthdate", "IS NULL", ")", "AND",
                          "(", "name", ">=", "?", ")", "AND",
                          "(", "name", "<", "?", ")">>
    /\ loc[c].sql.params = <<"bar", "foo">>

\* ------------------------------------------- properties of non-empty criteria
\* C26: the DELETE or UPDATE statement of a call given a where with entries
\* carries at least one condition for every entry, so never an empty WHERE
\* clause.
C26_EveryEntryConstrains ==
  \A c \in Callers :
    (/\ op[c].name \in {"delete", "update"}
     /\ op[c].options.hasWhere
     /\ op[c].options.where.given)
    => \A k \in DOMAIN loc[c].stmts :
         loc[c].stmts[k].kind \in {"DELETE", "UPDATE"}
         => Len(loc[c].stmts[k].where) >= Len(op[c].options.where.entries)

\* ------------------------------------------------ properties of the errors
\* C27: a call of insert, select, count, update, delete or migrate never
\* rejects with an error of the engine that the adapter has a domain error
\* for (no such table, a syntax error, any other code-1 error, a UNIQUE
\* violation): the caller gets the adapted error.
C27_ErrorsAdapted ==
  \A c \in Callers :
    (/\ op[c].name \in {"insert", "select", "count", "update", "delete",
                         "migrate"}
     /\ res[c].status = "rejected")
    => adaptSqliteError(res[c].error) = res[c].error

\* ------------------------------------- properties of object-form custom types
\* The columns declared as an object whose type is a custom type name.
ObjectFormCustom(tableSchema) ==
  {i \in DOMAIN tableSchema.columns :
     /\ tableSchema.columns[i].decl.form = "object"
     /\ tableSchema.columns[i].decl.type \in CustomTypeNames}

\* C28: a column declared in object form with a custom type name is created
\* with the native storage type of the registry, and with update_timestamp
\* as the type an insert that resolves has written the instant of the call
\* to it.
C28_ObjectFormCustomType ==
  \A k \in DOMAIN schema : \A i \in ObjectFormCustom(schema[k]) :
    LET tableSchema == schema[k]
        column == tableSchema.columns[i]
        table == db[tableSchema.name]
    IN /\ table.exists
            => table.cols[i].type = CUSTOM_TYPES(column.decl.type).type
       /\ \A c \in Callers :
            (/\ op[c].name = "insert"
             /\ op[c].table = tableSchema.name
             /\ pc[c] = "done"
             /\ res[c].status = "resolved"
             /\ table.exists
             /\ column.decl.type = "update_timestamp")
            => \A r \in DOMAIN table.rows :
                 table.rows[r].rowid \in Range(res[c].value.ids)
                 => table.rows[r].vals[column.name] # Null

\* ------------------------------------------- properties of the batch insert
\* The INSERT statements the call has sent, in the order it sent them.
InsertsOf(c) ==
  LET IsInsert(stmt) == stmt.kind = "INSERT"
  IN SelectSeq(loc[c].stmts, IsInsert)

\* The records of the call whose hooks reject: those that give a value for a
\* timestamp column.
HookRejects(c) ==
  {k \in DOMAIN op[c].records :
     GivesTimestamp(SchemaOf(op[c].table), op[c].records[k])}

\* The parameter the statement binds for the column.
ParamOf(stmt, cn) ==
  stmt.params[CHOOSE i \in DOMAIN stmt.columns : stmt.columns[i] = cn]

\* C29 as stated: when a before-insert hook rejects record k of a batch
\* insert, the INSERTs of the records 1..k-1 have been executed.
C29_AsStated ==
  \A c \in Callers :
    (/\ op[c].name = "insert"
     /\ pc[c] = "done"
     /\ HookRejects(c) # {})
    => Len(InsertsOf(c)) = Min(HookRejects(c)) - 1

\* C29: a batch insert runs the before-insert hooks of every record, in
\* input order and for each record in the order of the fixed column list,
\* before it prepares or executes any INSERT: when a hook rejects record k
\* the call rejects and no INSERT has been prepared or executed, and when no
\* hook rejects, the j-th INSERT executed binds, in the order of the column
\* list, the working copy of the j-th record, stamped by its hooks.
C29_HooksBeforeInserts ==
  \A c \in Callers :
    op[c].name = "insert"
    => LET tableSchema == SchemaOf(op[c].table)
       IN /\ HookRejects(c) # {}
               => /\ NoneSent(c, {"PREPARE INSERT", "INSERT"})
                  /\ pc[c] = "done" => res[c].status = "rejected"
          /\ \A j \in DOMAIN InsertsOf(c) :
               /\ j <= Len(op[c].records)
               /\ InsertsOf(c)[j].columns = ColumnNamesOf(tableSchema)
               /\ ParamOf(InsertsOf(c)[j], "name") = op[c].records[j].name
               /\ \A cn \in TimestampColumns(tableSchema) :
                    ParamOf(InsertsOf(c)[j], cn) = loc[c].now

\* The insert of foo and of bar with a value for updated_at was rejected with
\* InsertError: no statement was sent, foo is not in the table.
C29_Witness ==
  \E c \in Callers :
    /\ op[c].name = "insert"
    /\ pc[c] = "done"
    /\ op[c].records = <<[name |-> "foo"],
                         [name |-> "bar", updated_at |-> "T1"]>>
    /\ res[c].status = "rejected"
    /\ res[c].error.class = "InsertError"
    /\ loc[c].stmts = <<>>
    /\ db["people"].rows = loc[c].before.rows


\* C30: every CREATE TABLE statement sent to the engine carries the
\* column-level PRIMARY KEY marker on at most one column clause, also when
\* the table's primaryKey is a list of several column names, and so the
\* engine never refuses the statement for having more than one primary key.
C30_OnePrimaryKeyMarker ==
  \A c \in Callers :
    /\ \A k \in CreateStatementsOf(c) :
         LET sql == loc[c].stmts[k]
         IN Cardinality({i \in DOMAIN sql.cols : sql.cols[i].primaryKey}) <= 1
    /\ (pc[c] = "done" /\ res[c].status = "rejected")
         => res[c].error.text # "more than one primary key"

====
